---- MODULE Spec2Model ----
(***************************************************************************)
(* open-os-cli: the inline AI session engine.                              *)
(*                                                                         *)
(* Renderer process (src/src/frontend/renderer.ts): one TabInstance per    *)
(* tab, the inline state machine idle -> input -> streaming -> approval,   *)
(* the panel query, the setTimeout callbacks of the approval workflow.     *)
(* Main process (src/unnamed/part_002): one conversationHistory per tab    *)
(* and queryOllama with its response / end / error handlers.               *)
(*                                                                         *)
(* Text is a sequence of one-character strings.  A keystroke is the data   *)
(* string xterm hands to term.onData: one character or one escape          *)
(* sequence, kept as one token.                                            *)
(*                                                                         *)
(* Both processes are single-threaded event loops; every action below is   *)
(* one run-to-completion handler.  An IPC send is delivered in order, so   *)
(* the receiving handler is run as part of the step that sends: the        *)
(* transport events of a request stay separate steps and supply every      *)
(* interleaving the receiver can observe.                                  *)
(***************************************************************************)
EXTENDS Integers, Sequences, FiniteSets, TLC

VARIABLES
  tabInstances,   \* renderer: ids in the tabInstances map
  activeTabId,    \* renderer: the tab shown, 0 before the first tab
  tab,            \* renderer: the TabInstance of every id
  aiPanelOpen,    \* renderer: panel overlay open
  actionsShown,   \* renderer: #ai-actions is visible
  timers,         \* renderer: pending setTimeout callbacks, in scheduling order
  toggleWait,     \* renderer: hotkey handlers suspended in await configGet()
  fsPending,      \* renderer: fsComplete promises not yet settled
  tabs,           \* main: ids in the tabs map (a live PTY each)
  shell,          \* main: the PTY process spawned for every id
  ledger,         \* main: conversationHistory of every id
  model,          \* main: config.model is set
  reqs,           \* main: the http requests issued so far, in order
  ev,             \* the event handled by the last step
  out             \* what the last step wrote: shell writes, error lines

vars == <<tabInstances, activeTabId, tab, aiPanelOpen, actionsShown, timers,
          toggleWait, fsPending, tabs, shell, ledger, model, reqs, ev, out>>

----------------------------------------------------------------------------
(* Bounds *)

MaxTabs == 2          \* tab ids are 1..MaxTabs
MaxRequests == 2      \* http requests issued in one behaviour
MaxData == 1          \* 'data' events of one response
MaxTimers == 2        \* setTimeout callbacks pending at once
MaxInput == 1         \* characters typed into the inline prompt
MaxToggles == 1       \* hotkey handlers suspended at once
MaxGwRequests == 1    \* SpecGw: http requests issued in one behaviour
MaxGwData == 3        \* SpecGw: 'data' events of one response
MaxPresses == 4       \* C17: presses of an arrow key in a row
MaxBuffer == 2        \* characters of the inline prompt after a paste or a completion
MaxFragments == 3     \* SpecParse: pieces of a free-text answer

TabIds == 1..MaxTabs

----------------------------------------------------------------------------
(* Program constants *)

MAX_HISTORY_MESSAGES == 20
RUN_DELAY == 50
SETTLE_DELAY == 500

----------------------------------------------------------------------------
(* Characters and keystrokes *)

CR == "\r"
NL == "\n"
TAB == "\t"
ESC == "ESC"          \* \x1b
CTRLC == "ETX"        \* \x03
DEL == "DEL"          \* \x7f
BS == "BS"            \* \b
UP == "ESC[A"
DOWN == "ESC[B"

Whitespace == {" ", NL, CR, TAB}

\* data.length === 1 && data.charCodeAt(0) >= 32
Printable == {" ", "a", "b", "c", "i", "r", "s", "C", "I", "R", "S", "$", "/"}

\* String.prototype.toLowerCase on one keystroke
ToLowerCase(d) ==
  CASE d = "C" -> "c"
    [] d = "I" -> "i"
    [] d = "R" -> "r"
    [] d = "S" -> "s"
    [] OTHER -> d

RECURSIVE TrimStart(_)
TrimStart(s) ==
  IF s # <<>> /\ Head(s) \in Whitespace THEN TrimStart(Tail(s)) ELSE s

RECURSIVE TrimEnd(_)
TrimEnd(s) ==
  IF s # <<>> /\ s[Len(s)] \in Whitespace
  THEN TrimEnd(SubSeq(s, 1, Len(s) - 1)) ELSE s

\* trim gone wrong: the text is kept as it is
TrimNothing(s) == s

Trim(s) == TrimEnd(TrimStart(s))

\* NewlinesToCR gone wrong: the command is written with its newlines
NewlinesKept(s) == s

\* cmd.replace(/\n/g, '\r')
NewlinesToCR(s) == [i \in 1..Len(s) |-> IF s[i] = NL THEN CR ELSE s[i]]

StartsWith(s, p) == Len(p) <= Len(s) /\ SubSeq(s, 1, Len(p)) = p

----------------------------------------------------------------------------
(* JSON.parse, as far as parseAiResponse looks at its result.  A value is  *)
(* [t, s, items]: t its type, s the text of a string, items the elements   *)
(* of an array or the [k, v] members of an object.  \u escapes are not     *)
(* decoded: no text drawn below contains one.                              *)

Digits == {"0", "1", "2", "3", "4", "5", "6", "7", "8", "9"}
WordChars ==
  Digits \cup {"_"}
    \cup {"a", "b", "c", "d", "e", "f", "g", "h", "i", "j", "k", "l", "m",
          "n", "o", "p", "q", "r", "s", "t", "u", "v", "w", "x", "y", "z"}
    \cup {"A", "B", "C", "D", "E", "F", "G", "H", "I", "J", "K", "L", "M",
          "N", "O", "P", "Q", "R", "S", "T", "U", "V", "W", "X", "Y", "Z"}
JsonWs == {" ", NL, CR, TAB}
ControlChars == {NL, CR, TAB, BS}

JVal(t, s, items) == [t |-> t, s |-> s, items |-> items]
JNull == JVal("null", <<>>, <<>>)
JFail == [ok |-> FALSE, v |-> JNull, i |-> 0]
JOk(v, i) == [ok |-> TRUE, v |-> v, i |-> i]

RECURSIVE SkipWs(_, _)
SkipWs(s, i) == IF i <= Len(s) /\ s[i] \in JsonWs THEN SkipWs(s, i + 1) ELSE i

RECURSIVE SkipDigits(_, _)
SkipDigits(s, i) ==
  IF i <= Len(s) /\ s[i] \in Digits THEN SkipDigits(s, i + 1) ELSE i

HasAt(s, i, lit) ==
  i + Len(lit) - 1 <= Len(s) /\ SubSeq(s, i, i + Len(lit) - 1) = lit

Unescape(e) ==
  CASE e = "n" -> NL
    [] e = "r" -> CR
    [] e = "t" -> TAB
    [] e = "b" -> BS
    [] OTHER -> e

\* the characters of a string literal, from the one after the opening quote
RECURSIVE JsonStringBody(_, _, _)
JsonStringBody(s, j, acc) ==
  IF j > Len(s) THEN JFail
  ELSE IF s[j] = "\"" THEN JOk(JVal("string", acc, <<>>), j + 1)
  ELSE IF s[j] = "\\"
    THEN IF j + 1 <= Len(s) /\ s[j + 1] \in {"\"", "\\", "/", "b", "n", "r", "t"}
         THEN JsonStringBody(s, j + 2, Append(acc, Unescape(s[j + 1])))
         ELSE JFail
  ELSE IF s[j] \in ControlChars THEN JFail
  ELSE JsonStringBody(s, j + 1, Append(acc, s[j]))

\* -? (0 | [1-9][0-9]*) (. [0-9]+)? ([eE] [+-]? [0-9]+)?
JsonNumber(s, i) ==
  LET i1 == IF i <= Len(s) /\ s[i] = "-" THEN i + 1 ELSE i
      i2 == IF i1 <= Len(s) /\ s[i1] = "0" THEN i1 + 1 ELSE SkipDigits(s, i1)
      f1 == IF i2 <= Len(s) /\ s[i2] = "." THEN SkipDigits(s, i2 + 1) ELSE i2
      fracOk == f1 = i2 \/ f1 > i2 + 1
      e0 == IF f1 <= Len(s) /\ s[f1] \in {"e", "E"} THEN f1 + 1 ELSE f1
      e1 == IF e0 > f1 /\ e0 <= Len(s) /\ s[e0] \in {"+", "-"} THEN e0 + 1 ELSE e0
      e2 == IF e0 > f1 THEN SkipDigits(s, e1) ELSE f1
      expOk == e0 = f1 \/ e2 > e1
  IN IF i2 > i1 /\ fracOk /\ expOk THEN JOk(JVal("number", <<>>, <<>>), e2) ELSE JFail

RECURSIVE JsonValue(_, _)
RECURSIVE JsonElements(_, _, _)
RECURSIVE JsonMembers(_, _, _)

\* after '[' or ',': value ws (',' ws value ws)* ']'
JsonElements(s, i, acc) ==
  LET r == JsonValue(s, i)
      j == SkipWs(s, r.i)
  IN IF ~r.ok \/ j > Len(s) THEN JFail
     ELSE IF s[j] = "]" THEN JOk(JVal("array", <<>>, Append(acc, r.v)), j + 1)
     ELSE IF s[j] = "," THEN JsonElements(s, SkipWs(s, j + 1), Append(acc, r.v))
     ELSE JFail

\* after '{' or ',': string ws ':' ws value ws (',' ws ...)* '}'
JsonMembers(s, i, acc) ==
  IF i > Len(s) \/ s[i] # "\"" THEN JFail
  ELSE
    LET k == JsonStringBody(s, i + 1, <<>>)
        c == SkipWs(s, k.i)
    IN IF ~k.ok \/ c > Len(s) \/ s[c] # ":" THEN JFail
       ELSE
         LET r == JsonValue(s, SkipWs(s, c + 1))
             j == SkipWs(s, r.i)
             kv == Append(acc, [k |-> k.v.s, v |-> r.v])
         IN IF ~r.ok \/ j > Len(s) THEN JFail
            ELSE IF s[j] = "}" THEN JOk(JVal("object", <<>>, kv), j + 1)
            ELSE IF s[j] = "," THEN JsonMembers(s, SkipWs(s, j + 1), kv)
            ELSE JFail

JsonValue(s, i) ==
  IF i > Len(s) THEN JFail
  ELSE IF s[i] = "\"" THEN JsonStringBody(s, i + 1, <<>>)
  ELSE IF s[i] = "{"
    THEN LET j == SkipWs(s, i + 1)
         IN IF j <= Len(s) /\ s[j] = "}"
            THEN JOk(JVal("object", <<>>, <<>>), j + 1)
            ELSE JsonMembers(s, j, <<>>)
  ELSE IF s[i] = "["
    THEN LET j == SkipWs(s, i + 1)
         IN IF j <= Len(s) /\ s[j] = "]"
            THEN JOk(JVal("array", <<>>, <<>>), j + 1)
            ELSE JsonElements(s, j, <<>>)
  ELSE IF HasAt(s, i, <<"n", "u", "l", "l">>) THEN JOk(JNull, i + 4)
  ELSE IF HasAt(s, i, <<"t", "r", "u", "e">>)
    THEN JOk(JVal("boolean", <<>>, <<>>), i + 4)
  ELSE IF HasAt(s, i, <<"f", "a", "l", "s", "e">>)
    THEN JOk(JVal("boolean", <<>>, <<>>), i + 5)
  ELSE JsonNumber(s, i)

\* JSON.parse(raw): ok = FALSE where it throws SyntaxError
JsonParse(raw) ==
  LET r == JsonValue(raw, SkipWs(raw, 1))
  IN IF r.ok /\ SkipWs(raw, r.i) = Len(raw) + 1 THEN r ELSE JFail

\* parsed[key] of a parsed object: the last member named key, else undefined
Undefined == JVal("undefined", <<>>, <<>>)
RECURSIVE GetMember(_, _, _)
GetMember(kv, n, key) ==
  IF n = 0 THEN Undefined
  ELSE IF kv[n].k = key THEN kv[n].v
  ELSE GetMember(kv, n - 1, key)

Prop(v, key) ==
  IF v.t = "object" THEN GetMember(v.items, Len(v.items), key) ELSE Undefined

----------------------------------------------------------------------------
(* extractCommands and parseAiResponse *)

BT == "BT"            \* the backtick character
Fence == <<BT, BT, BT>>

\* first index >= i where lit starts, 0 if none
RECURSIVE IndexOf(_, _, _)
IndexOf(s, lit, i) ==
  IF i + Len(lit) - 1 > Len(s) THEN 0
  ELSE IF HasAt(s, i, lit) THEN i
  ELSE IndexOf(s, lit, i + 1)

RECURSIVE SkipWord(_, _)
SkipWord(s, i) ==
  IF i <= Len(s) /\ s[i] \in WordChars THEN SkipWord(s, i + 1) ELSE i

\* the regex.exec loop gone wrong: the content of a block is not trimmed
RECURSIVE FencedFromUntrimmed(_, _, _)
FencedFromUntrimmed(s, i, acc) ==
  LET p == IndexOf(s, Fence, i)
  IN IF p = 0 THEN acc
     ELSE
       LET w == SkipWord(s, p + 3)
           q == IF w <= Len(s) /\ s[w] = NL THEN IndexOf(s, Fence, w + 1) ELSE 0
       IN IF q = 0 THEN FencedFromUntrimmed(s, p + 1, acc)
          ELSE
            LET cmd == SubSeq(s, w + 1, q - 1)
            IN FencedFromUntrimmed(s, q + 3,
                                   IF Trim(cmd) # <<>> THEN Append(acc, cmd) ELSE acc)

\* the regex.exec loop of extractCommands from lastIndex i: three backticks,
\* \w*, a newline, the shortest text up to the next three backticks
RECURSIVE FencedFrom(_, _, _)
FencedFrom(s, i, acc) ==
  LET p == IndexOf(s, Fence, i)
  IN IF p = 0 THEN acc
     ELSE
       LET w == SkipWord(s, p + 3)
           q == IF w <= Len(s) /\ s[w] = NL THEN IndexOf(s, Fence, w + 1) ELSE 0
       IN IF q = 0 THEN FencedFrom(s, p + 1, acc)
          ELSE
            LET cmd == Trim(SubSeq(s, w + 1, q - 1))
            IN FencedFrom(s, q + 3, IF cmd # <<>> THEN Append(acc, cmd) ELSE acc)

\* response.split('\n')
RECURSIVE SplitLines(_, _, _)
SplitLines(s, i, cur) ==
  IF i > Len(s) THEN <<cur>>
  ELSE IF s[i] = NL THEN <<cur>> \o SplitLines(s, i + 1, <<>>)
  ELSE SplitLines(s, i + 1, Append(cur, s[i]))

Split(s) == SplitLines(s, 1, <<>>)

RECURSIVE DollarLines(_, _)
DollarLines(lines, n) ==
  IF n > Len(lines) THEN <<>>
  ELSE
    LET l == TrimStart(lines[n])
        cmd == IF StartsWith(l, <<"$", " ">>) THEN Trim(SubSeq(l, 3, Len(l))) ELSE <<>>
    IN (IF cmd # <<>> THEN <<cmd>> ELSE <<>>) \o DollarLines(lines, n + 1)

extractCommands(response) ==
  LET fenced == FencedFrom(response, 1, <<>>)
  IN IF Len(fenced) > 0 THEN fenced ELSE DollarLines(Split(response), 1)

\* the filter gone wrong: the entries kept are trimmed
RECURSIVE StringEntriesTrimmed(_, _)
StringEntriesTrimmed(items, n) ==
  IF n > Len(items) THEN <<>>
  ELSE (IF items[n].t = "string" /\ Trim(items[n].s) # <<>>
        THEN <<Trim(items[n].s)>> ELSE <<>>) \o StringEntriesTrimmed(items, n + 1)

\* cmds.filter(c => typeof c === 'string' && c.trim().length > 0)
RECURSIVE StringEntries(_, _)
StringEntries(items, n) ==
  IF n > Len(items) THEN <<>>
  ELSE (IF items[n].t = "string" /\ Trim(items[n].s) # <<>>
        THEN <<items[n].s>> ELSE <<>>) \o StringEntries(items, n + 1)

K_text == <<"t", "e", "x", "t">>
K_explanation == <<"e", "x", "p", "l", "a", "n", "a", "t", "i", "o", "n">>
K_response == <<"r", "e", "s", "p", "o", "n", "s", "e">>
K_commands == <<"c", "o", "m", "m", "a", "n", "d", "s">>
K_command == <<"c", "o", "m", "m", "a", "n", "d">>

\* parseAiResponse gone wrong: the TypeError of null.text leaves the function
parsedResponseNullEscapes(raw, p) ==
     IF p.ok /\ p.v.t = "null" THEN [threw |-> "TypeError"]
     ELSE IF ~p.ok THEN [text |-> raw, commands |-> extractCommands(raw)]
     ELSE
       LET text == IF Prop(p.v, K_text).t = "string" THEN Prop(p.v, K_text).s
                   ELSE IF Prop(p.v, K_explanation).t = "string"
                     THEN Prop(p.v, K_explanation).s
                   ELSE IF Prop(p.v, K_response).t = "string"
                     THEN Prop(p.v, K_response).s
                   ELSE <<>>
           cmds == IF Prop(p.v, K_commands).t = "array"
                     THEN Prop(p.v, K_commands).items
                   ELSE IF Prop(p.v, K_command).t = "array"
                     THEN Prop(p.v, K_command).items
                   ELSE <<>>
       IN [text |-> text, commands |-> StringEntries(cmds, 1)]

\* the body of parseAiResponse once JSON.parse(raw) has answered p.
\* JSON.parse throws, or parsed is null and parsed.text throws: the catch
\* branch; any other parsed value answers undefined for a missing property
parsedResponse(raw, p) ==
     IF ~p.ok \/ p.v.t = "null"
     THEN [text |-> raw, commands |-> extractCommands(raw)]
     ELSE
       LET text == IF Prop(p.v, K_text).t = "string" THEN Prop(p.v, K_text).s
                   ELSE IF Prop(p.v, K_explanation).t = "string"
                     THEN Prop(p.v, K_explanation).s
                   ELSE IF Prop(p.v, K_response).t = "string"
                     THEN Prop(p.v, K_response).s
                   ELSE <<>>
           cmds == IF Prop(p.v, K_commands).t = "array"
                     THEN Prop(p.v, K_commands).items
                   ELSE IF Prop(p.v, K_command).t = "array"
                     THEN Prop(p.v, K_command).items
                   ELSE <<>>
       IN [text |-> text, commands |-> StringEntries(cmds, 1)]

parseAiResponse(raw) == parsedResponse(raw, JsonParse(raw))

----------------------------------------------------------------------------
(* The state the handlers work on.  A handler is an operator from a world  *)
(* W to the world it leaves behind, so that a handler which calls another  *)
(* one, or an IPC send which runs the receiving handler, is a composition. *)
(* W.writes and W.errs collect what the running step has written so far.   *)

NewTab ==
  [ inlineState |-> "idle",
    inlineInputBuffer |-> <<>>,
    inlineResponseBuffer |-> <<>>,
    inlineCommands |-> <<>>,
    inlineCommandIndex |-> 0,
    inlineAcceptedCommands |-> <<>>,
    inlineReviewBusy |-> FALSE,
    inlineHistory |-> <<>>,
    inlineHistoryIndex |-> -1,
    inlineHistoryStash |-> <<>>,
    aiQuerySource |-> "null",
    tabCompletionBusy |-> FALSE,
    panelSuggestedCommand |-> <<>>,
    panelResponseBuffer |-> <<>>,
    isStreaming |-> FALSE ]

World ==
  [ tab |-> tab, aiPanelOpen |-> aiPanelOpen, actionsShown |-> actionsShown,
    timers |-> timers, fsPending |-> fsPending,
    ledger |-> ledger, reqs |-> reqs,
    writes |-> <<>>, errs |-> <<>> ]

\* window.electronAPI.ptyWrite(tabId, data); site names the calling line
ptyWrite(W, t, site, text) ==
  [W EXCEPT !.writes = Append(@, [tab |-> t, site |-> site, text |-> text])]

\* an error line shown to the user, in the terminal or in the panel output
ShowError(W, t, where, msg) ==
  [W EXCEPT !.errs = Append(@, [tab |-> t, where |-> where, msg |-> msg])]

setTimeout(W, t, kind, cmd) ==
  [W EXCEPT !.timers = Append(@, [tab |-> t, kind |-> kind, cmd |-> cmd])]

resetInlineState(W, t) ==
  [W EXCEPT !.tab[t] =
     [@ EXCEPT !.inlineState = "idle",
               !.inlineInputBuffer = <<>>,
               !.inlineResponseBuffer = <<>>,
               !.inlineCommands = <<>>,
               !.inlineCommandIndex = 0,
               !.inlineAcceptedCommands = <<>>,
               !.inlineReviewBusy = FALSE,
               !.aiQuerySource = "null"]]

exitInlineMode(W, t) == resetInlineState(ptyWrite(W, t, "exit", <<CR>>), t)

\* enterInlineMode gone wrong: the prompt history is cleared with the
\* transient buffers
enterInlineModeForgetful(W, t) ==
  IF W.tab[t].inlineState # "idle" THEN W
  ELSE [W EXCEPT !.tab[t] =
     [@ EXCEPT !.inlineState = "input",
               !.inlineInputBuffer = <<>>,
               !.inlineResponseBuffer = <<>>,
               !.inlineCommands = <<>>,
               !.inlineCommandIndex = 0,
               !.inlineAcceptedCommands = <<>>,
               !.inlineHistory = <<>>,
               !.inlineHistoryIndex = -1,
               !.inlineHistoryStash = <<>>]]

enterInlineMode(W, t) ==
  IF W.tab[t].inlineState # "idle" THEN W
  ELSE [W EXCEPT !.tab[t] =
     [@ EXCEPT !.inlineState = "input",
               !.inlineInputBuffer = <<>>,
               !.inlineResponseBuffer = <<>>,
               !.inlineCommands = <<>>,
               !.inlineCommandIndex = 0,
               !.inlineAcceptedCommands = <<>>,
               !.inlineHistoryIndex = -1,
               !.inlineHistoryStash = <<>>]]

\* inlineReplaceInput gone wrong: the text is added to the buffer
inlineReplaceInputAppend(W, t, text) ==
  [W EXCEPT !.tab[t].inlineInputBuffer = @ \o text]

inlineReplaceInput(W, t, text) == [W EXCEPT !.tab[t].inlineInputBuffer = text]

\* tab.inlineCommands[i] and tab.inlineAcceptedCommands[0]: undefined when
\* the index is outside the array
NoCmd == <<"undefined">>
CommandAt(cmds, i) == IF i >= 0 /\ i < Len(cmds) THEN cmds[i + 1] ELSE NoCmd

\* advanceOrExit gone wrong: skipping a command sends it to the shell
advanceOrExitRunning(W, t) ==
  LET cmd == CommandAt(W.tab[t].inlineCommands, W.tab[t].inlineCommandIndex)
      W1 == [ptyWrite(W, t, "skip", NewlinesToCR(cmd) \o <<CR>>)
               EXCEPT !.tab[t].inlineCommandIndex = @ + 1]
  IN IF W1.tab[t].inlineCommandIndex < Len(W1.tab[t].inlineCommands)
     THEN W1
     ELSE exitInlineMode(W1, t)

\* advanceOrExit gone wrong: the cursor moves past the last command and the
\* tab stays in approval
advanceOrExitPast(W, t) ==
  [W EXCEPT !.tab[t].inlineCommandIndex = @ + 1]

\* advanceOrExit: the skip key
advanceOrExit(W, t) ==
  LET W1 == [W EXCEPT !.tab[t].inlineCommandIndex = @ + 1]
  IN IF W1.tab[t].inlineCommandIndex < Len(W1.tab[t].inlineCommands)
     THEN W1
     ELSE exitInlineMode(W1, t)

\* handleInlineApproval below its first line: the key acts on the review
\* prompt or on the confirm prompt
approvalKey(W, t, data) ==
  LET T == W.tab[t]
      key == ToLowerCase(data)
  IN IF T.inlineCommandIndex < Len(T.inlineCommands)
       THEN IF key = "r"
              THEN setTimeout(ptyWrite(W, t, "reviewCR", <<CR>>), t, "reviewRun",
                              CommandAt(T.inlineCommands, T.inlineCommandIndex))
            ELSE IF key = "s" THEN advanceOrExit(W, t)
            ELSE IF key = "c" \/ data = ESC THEN exitInlineMode(W, t)
            ELSE W
     ELSE LET cmd == CommandAt(T.inlineAcceptedCommands, 0)
          IN IF key = "i"
               THEN setTimeout(ptyWrite(resetInlineState(W, t), t, "insertCR", <<CR>>),
                               t, "insert", cmd)
             ELSE IF key = "r"
               THEN setTimeout(ptyWrite(resetInlineState(W, t), t, "runCR", <<CR>>),
                               t, "run", cmd)
             ELSE IF key = "c" \/ data = ESC THEN exitInlineMode(W, t)
             ELSE W

\* handleInlineApproval gone wrong: keys act during the settle delay
handleInlineApprovalEager(W, t, data) == approvalKey(W, t, data)

\* if (tab.inlineReviewBusy) return
handleInlineApproval(W, t, data) ==
  IF W.tab[t].inlineReviewBusy THEN W ELSE approvalKey(W, t, data)

----------------------------------------------------------------------------
(* Renderer: AI response routing (section 7 of renderer.ts) *)

\* onAiChunk gone wrong: the chunk goes to the tab on display
onAiChunkToActive(W, t, chunk) ==
  IF activeTabId \notin tabInstances THEN W
  ELSE IF W.tab[activeTabId].aiQuerySource = "inline"
    THEN [W EXCEPT !.tab[activeTabId].inlineResponseBuffer = @ \o chunk]
  ELSE IF W.tab[activeTabId].aiQuerySource = "panel"
    THEN [W EXCEPT !.tab[activeTabId].panelResponseBuffer = @ \o chunk]
  ELSE W

onAiChunk(W, t, chunk) ==
  IF t \notin tabInstances THEN W
  ELSE IF W.tab[t].aiQuerySource = "inline"
    THEN [W EXCEPT !.tab[t].inlineResponseBuffer = @ \o chunk]
  ELSE IF W.tab[t].aiQuerySource = "panel"
    THEN [W EXCEPT !.tab[t].panelResponseBuffer = @ \o chunk]
  ELSE W

\* commands.map(c => c).join('\n') of the panel branch
RECURSIVE JoinNl(_)
JoinNl(cmds) ==
  IF cmds = <<>> THEN <<>>
  ELSE IF Len(cmds) = 1 THEN cmds[1]
  ELSE cmds[1] \o <<NL>> \o JoinNl(Tail(cmds))

\* inlineDone gone wrong: a single suggested command is sent to the shell
\* as soon as the response completes
inlineDoneAutoRun(W, t, commands) ==
  IF Len(commands) = 0 THEN exitInlineMode(W, t)
  ELSE IF Len(commands) = 1
    THEN resetInlineState(
           ptyWrite(W, t, "run", NewlinesToCR(commands[1]) \o <<CR>>), t)
  ELSE [W EXCEPT !.tab[t] =
           [@ EXCEPT !.inlineCommands = commands,
                     !.inlineCommandIndex = 0,
                     !.inlineAcceptedCommands = <<>>,
                     !.inlineState = "approval"]]

\* the inline branch of onAiDone with commands the parsed commands
inlineDone(W, t, commands) ==
  IF Len(commands) = 0 THEN exitInlineMode(W, t)
  ELSE IF Len(commands) = 1
    THEN [W EXCEPT !.tab[t] =
           [@ EXCEPT !.inlineCommands = commands,
                     !.inlineCommandIndex = 1,
                     !.inlineAcceptedCommands = commands,
                     !.inlineState = "approval"]]
  ELSE [W EXCEPT !.tab[t] =
           [@ EXCEPT !.inlineCommands = commands,
                     !.inlineCommandIndex = 0,
                     !.inlineAcceptedCommands = <<>>,
                     !.inlineState = "approval"]]

\* the panel branch of onAiDone with commands the parsed commands
panelDone(W, t, commands) ==
  LET W1 == [W EXCEPT !.tab[t].isStreaming = FALSE,
                      !.tab[t].aiQuerySource = "null"]
  IN IF Len(commands) > 0
     THEN [W1 EXCEPT !.tab[t].panelSuggestedCommand = JoinNl(commands),
                     !.actionsShown = TRUE]
     ELSE W1

\* onAiDone gone wrong: the tab is not looked up in the registry
onAiDoneUnchecked(W, t) ==
  IF W.tab[t].aiQuerySource = "inline" /\ W.tab[t].inlineState = "streaming"
    THEN inlineDone(W, t, parseAiResponse(W.tab[t].inlineResponseBuffer).commands)
  ELSE IF W.tab[t].aiQuerySource = "panel"
    THEN panelDone(W, t, parseAiResponse(W.tab[t].panelResponseBuffer).commands)
  ELSE W

onAiDone(W, t) ==
  IF t \notin tabInstances THEN W
  ELSE IF W.tab[t].aiQuerySource = "inline" /\ W.tab[t].inlineState = "streaming"
    THEN inlineDone(W, t, parseAiResponse(W.tab[t].inlineResponseBuffer).commands)
  ELSE IF W.tab[t].aiQuerySource = "panel"
    THEN panelDone(W, t, parseAiResponse(W.tab[t].panelResponseBuffer).commands)
  ELSE W

onAiError(W, t, error) ==
  IF t \notin tabInstances THEN W
  ELSE IF W.tab[t].aiQuerySource = "inline"
    THEN resetInlineState(
           ptyWrite(ShowError(W, t, "term", error), t, "error", <<CR>>), t)
  ELSE IF W.tab[t].aiQuerySource = "panel"
    THEN ShowError([W EXCEPT !.tab[t].isStreaming = FALSE,
                             !.tab[t].aiQuerySource = "null"], t, "panel", error)
  ELSE W

----------------------------------------------------------------------------
(* Main: queryOllama.  A response body is a sequence of pieces: "nl" is a  *)
(* newline, "obj" the text of one JSON object with message.content =       *)
(* content and done = done, "head" and "tail" the two halves of such a     *)
(* text, "junk" text that is no JSON, "sp" whitespace.                     *)

Piece(k, content, done) == [k |-> k, content |-> content, done |-> done]
PNl == Piece("nl", <<>>, FALSE)
PSp == Piece("sp", <<>>, FALSE)
PJunk == Piece("junk", <<>>, FALSE)

\* the context block queryOllama puts before the prompt
CtxOpen == <<"T", "e", "r", "m", "i", "n", "a", "l", " ", "c", "o", "n", "t",
             "e", "x", "t", ":", NL, BT, BT, BT, NL>>
CtxClose == <<NL, BT, BT, BT, NL, NL>>

userContent(prompt, context) ==
  IF context # <<>> THEN CtxOpen \o context \o CtxClose \o prompt ELSE prompt

\* while (history.length > MAX_HISTORY_MESSAGES) history.shift()
RECURSIVE trimHistory(_)
trimHistory(h) ==
  IF Len(h) > MAX_HISTORY_MESSAGES THEN trimHistory(Tail(h)) ELSE h

\* the array a request's closure calls history
History(W, r) ==
  IF W.reqs[r].attached THEN W.ledger[W.reqs[r].tab] ELSE W.reqs[r].own

SetHistory(W, r, h) ==
  IF W.reqs[r].attached THEN [W EXCEPT !.ledger[W.reqs[r].tab] = h]
  ELSE [W EXCEPT !.reqs[r].own = h]

NoModelMsg == "No model selected"

\* queryOllama gone wrong: the request is made whether or not a model is
\* configured
queryOllamaAnyModel(W, t, prompt, context) ==
  IF FALSE THEN onAiError(W, t, NoModelMsg)
  ELSE
    LET before == IF t \in tabs THEN W.ledger[t] ELSE <<>>
        h == trimHistory(Append(before,
               [role |-> "user", content |-> userContent(prompt, context)]))
        req == [ tab |-> t, attached |-> t \in tabs, own |-> <<>>,
                 phase |-> "active", buffer |-> <<>>,
                 currentAssistantResponse |-> <<>>, doneSent |-> FALSE,
                 nData |-> 0,
                 \* bookkeeping, read by no handler
                 source |-> W.tab[t].aiQuerySource, base |-> before,
                 sent |-> <<>>, nDone |-> 0, nError |-> 0, cancelled |-> FALSE,
                 nDoneLines |-> 0, malformed |-> FALSE ]
        W1 == [W EXCEPT !.reqs = Append(@, req)]
    IN SetHistory(W1, Len(W1.reqs), h)

queryOllama(W, t, prompt, context) ==
  IF ~model THEN onAiError(W, t, NoModelMsg)
  ELSE
    LET before == IF t \in tabs THEN W.ledger[t] ELSE <<>>
        h == trimHistory(Append(before,
               [role |-> "user", content |-> userContent(prompt, context)]))
        req == [ tab |-> t, attached |-> t \in tabs, own |-> <<>>,
                 phase |-> "active", buffer |-> <<>>,
                 currentAssistantResponse |-> <<>>, doneSent |-> FALSE,
                 nData |-> 0,
                 \* bookkeeping, read by no handler
                 source |-> W.tab[t].aiQuerySource, base |-> before,
                 sent |-> <<>>, nDone |-> 0, nError |-> 0, cancelled |-> FALSE,
                 nDoneLines |-> 0, malformed |-> FALSE ]
        W1 == [W EXCEPT !.reqs = Append(@, req)]
    IN SetHistory(W1, Len(W1.reqs), h)

\* the block shared by the done line and the end handler
finish(W, r) ==
  LET W1 == [W EXCEPT !.reqs[r].doneSent = TRUE, !.reqs[r].nDone = @ + 1]
      car == W.reqs[r].currentAssistantResponse
      W2 == IF car # <<>>
            THEN SetHistory(W1, r, Append(History(W1, r),
                                          [role |-> "assistant", content |-> car]))
            ELSE W1
  IN onAiDone(W2, W.reqs[r].tab)

RECURSIVE StripSp(_)
StripSp(line) ==
  IF line # <<>> /\ Head(line).k = "sp" THEN StripSp(Tail(line))
  ELSE IF line # <<>> /\ line[Len(line)].k = "sp"
    THEN StripSp(SubSeq(line, 1, Len(line) - 1))
  ELSE line

\* JSON.parse(line): ok = FALSE where it throws
parseLine(line) ==
  LET core == StripSp(line)
  IN IF Len(core) = 1 /\ core[1].k = "obj"
       THEN [ok |-> TRUE, content |-> core[1].content, done |-> core[1].done]
     ELSE IF Len(core) = 2 /\ core[1].k = "head" /\ core[2].k = "tail"
             /\ core[1].content = core[2].content /\ core[1].done = core[2].done
       THEN [ok |-> TRUE, content |-> core[1].content, done |-> core[1].done]
     ELSE [ok |-> FALSE, content |-> <<>>, done |-> FALSE]

\* if (json.message?.content): append and send ai:chunk
lineContent(W, r, content) ==
  IF content # <<>>
  THEN onAiChunk([W EXCEPT !.reqs[r].currentAssistantResponse = @ \o content,
                           !.reqs[r].sent = Append(@, content)],
                 W.reqs[r].tab, content)
  ELSE W

\* lineDone gone wrong: every line carrying done completes the request
lineDoneUnguarded(W, r, done) ==
  IF done THEN finish([W EXCEPT !.reqs[r].nDoneLines = @ + 1], r) ELSE W

\* if (json.done && !doneSent)
lineDone(W, r, done) ==
  IF done /\ ~W.reqs[r].doneSent
  THEN finish([W EXCEPT !.reqs[r].nDoneLines = @ + 1], r)
  ELSE IF done THEN [W EXCEPT !.reqs[r].nDoneLines = @ + 1]
  ELSE W

\* the try block of the loop body with j the answer of JSON.parse(line); a
\* complete line that does not parse is skipped
lineParsed(W, r, j) ==
  IF ~j.ok THEN [W EXCEPT !.reqs[r].malformed = TRUE]
  ELSE lineDone(lineContent(W, r, j.content), r, j.done)

\* the body of the for loop over the complete lines of a data event
processLine(W, r, line) ==
  IF StripSp(line) = <<>> THEN W ELSE lineParsed(W, r, parseLine(line))

RECURSIVE processLines(_, _, _)
processLines(W, r, lines) ==
  IF lines = <<>> THEN W
  ELSE processLines(processLine(W, r, Head(lines)), r, Tail(lines))

\* buffer.split('\n') over pieces
RECURSIVE splitPieces(_, _)
splitPieces(ps, cur) ==
  IF ps = <<>> THEN <<cur>>
  ELSE IF Head(ps).k = "nl" THEN <<cur>> \o splitPieces(Tail(ps), <<>>)
  ELSE splitPieces(Tail(ps), Append(cur, Head(ps)))

\* res.on('data')
resOnData(W, r, chunk) ==
  LET lines == splitPieces(W.reqs[r].buffer \o chunk, <<>>)
      W1 == [W EXCEPT !.reqs[r].buffer = lines[Len(lines)],
                      !.reqs[r].nData = @ + 1]
  IN processLines(W1, r, SubSeq(lines, 1, Len(lines) - 1))

\* res.on('end')
resOnEnd(W, r) ==
  LET W1 == [W EXCEPT !.reqs[r].phase = "ended"]
  IN IF ~W1.reqs[r].doneSent THEN finish(W1, r) ELSE W1

ECONNREFUSED == "ECONNREFUSED"
ECONNRESET == "ECONNRESET"
CannotConnect == "Cannot connect to Ollama"

\* the rollback of the error handler: pop the last message if it is a
\* user message
rollbackLastUser(h) ==
  IF Len(h) - 1 >= 0 /\ h[Len(h)].role = "user"
  THEN SubSeq(h, 1, Len(h) - 1) ELSE h

\* req.on('error')
reqOnError(W, r, err) ==
  LET W1 == SetHistory(W, r, rollbackLastUser(History(W, r)))
      message == IF err = ECONNREFUSED THEN CannotConnect ELSE err
      W2 == [W1 EXCEPT !.reqs[r].phase = "failed", !.reqs[r].nError = @ + 1]
  IN onAiError(W2, W.reqs[r].tab, message)

----------------------------------------------------------------------------
(* Renderer: the inline prompt *)

\* the match of /(\S+)$/ : the trailing run of non-whitespace, <<>> if none
RECURSIVE LastToken(_)
LastToken(s) ==
  IF s = <<>> \/ s[Len(s)] \in Whitespace THEN <<>>
  ELSE Append(LastToken(SubSeq(s, 1, Len(s) - 1)), s[Len(s)])

\* partial.split(/[/\\]/).pop()
RECURSIVE LastSegment(_)
LastSegment(s) ==
  IF s = <<>> \/ s[Len(s)] \in {"/", "\\"} THEN <<>>
  ELSE Append(LastSegment(SubSeq(s, 1, Len(s) - 1)), s[Len(s)])

\* handleTabCompletion gone wrong: a request is issued while one is outstanding
handleTabCompletionOverlapping(W, t) ==
  LET partial == LastToken(W.tab[t].inlineInputBuffer)
  IN IF partial = <<>> THEN W
     ELSE [W EXCEPT !.tab[t].tabCompletionBusy = TRUE,
                    !.fsPending = Append(@, [tab |-> t, partial |-> partial,
                                             prefix |-> LastSegment(partial)])]

\* handleTabCompletion up to the call of fsComplete: the promise is kept in
\* fsPending with the partial and the prefix its callbacks close over
handleTabCompletion(W, t) ==
  LET partial == LastToken(W.tab[t].inlineInputBuffer)
  IN IF W.tab[t].tabCompletionBusy \/ partial = <<>> THEN W
     ELSE [W EXCEPT !.tab[t].tabCompletionBusy = TRUE,
                    !.fsPending = Append(@, [tab |-> t, partial |-> partial,
                                             prefix |-> LastSegment(partial)])]

\* main, fs:complete: the entries of the directory that start with the
\* basename of the partial, a directory with a slash appended, sorted.
\* entries is what readdirSync answers, each entry [name, dir]
CharCode(c) ==
  CASE c = "/" -> 47 [] c = "a" -> 97 [] c = "b" -> 98 [] c = "c" -> 99
    [] OTHER -> 0

\* a < b in the order of Array.prototype.sort
RECURSIVE Before(_, _)
Before(a, b) ==
  IF b = <<>> THEN FALSE
  ELSE IF a = <<>> THEN TRUE
  ELSE IF Head(a) # Head(b) THEN CharCode(Head(a)) < CharCode(Head(b))
  ELSE Before(Tail(a), Tail(b))

RECURSIVE InsertSorted(_, _)
InsertSorted(sorted, x) ==
  IF sorted = <<>> THEN <<x>>
  ELSE IF Before(x, Head(sorted)) THEN <<x>> \o sorted
  ELSE <<Head(sorted)>> \o InsertSorted(Tail(sorted), x)

RECURSIVE Sort(_)
Sort(names) ==
  IF names = <<>> THEN <<>>
  ELSE InsertSorted(Sort(SubSeq(names, 1, Len(names) - 1)), names[Len(names)])

RECURSIVE MatchingEntries(_, _)
MatchingEntries(entries, prefix) ==
  IF entries = <<>> THEN <<>>
  ELSE (IF StartsWith(Head(entries).name, prefix)
        THEN <<IF Head(entries).dir THEN Append(Head(entries).name, "/")
               ELSE Head(entries).name>>
        ELSE <<>>) \o MatchingEntries(Tail(entries), prefix)

fsCompleteMain(entries, partial) ==
  Sort(MatchingEntries(entries, LastSegment(partial)))

\* the while loop: common loses its last character until m starts with it
RECURSIVE shortenTo(_, _)
shortenTo(common, m) ==
  IF common # <<>> /\ ~StartsWith(m, common)
  THEN shortenTo(SubSeq(common, 1, Len(common) - 1), m)
  ELSE common

\* the for loop over matches[i..]
RECURSIVE commonPrefix(_, _, _)
commonPrefix(matches, i, common) ==
  IF i > Len(matches) THEN common
  ELSE commonPrefix(matches, i + 1, shortenTo(common, matches[i]))

\* the .then callback gone wrong: the whole common prefix is appended
completionThenWhole(W, p, matches) ==
  LET t == p.tab
      W1 == [W EXCEPT !.tab[t].tabCompletionBusy = FALSE]
  IN IF W1.tab[t].inlineState # "input" \/ matches = <<>> THEN W1
     ELSE [W1 EXCEPT !.tab[t].inlineInputBuffer =
                        @ \o commonPrefix(matches, 2, matches[1])]

\* the .then callback of the promise p of fsComplete
completionThen(W, p, matches) ==
  LET t == p.tab
      W1 == [W EXCEPT !.tab[t].tabCompletionBusy = FALSE]
      common == commonPrefix(matches, 2, matches[1])
      toAdd == SubSeq(common, Len(p.prefix) + 1, Len(common))
  IN IF W1.tab[t].inlineState # "input" \/ matches = <<>> THEN W1
     ELSE [W1 EXCEPT !.tab[t].inlineInputBuffer = @ \o toAdd]

\* the .catch callback
completionCatch(W, p) == [W EXCEPT !.tab[p.tab].tabCompletionBusy = FALSE]

\* submitInlineQuery gone wrong: every submitted prompt is pushed
submitInlineQueryAlways(W, t, context) ==
  LET prompt == Trim(W.tab[t].inlineInputBuffer)
  IN IF prompt = <<>> THEN exitInlineMode(W, t)
     ELSE queryOllama(
            [W EXCEPT !.tab[t] =
               [@ EXCEPT !.inlineHistory = Append(@, prompt),
                         !.inlineHistoryIndex = -1,
                         !.inlineHistoryStash = <<>>,
                         !.inlineState = "streaming",
                         !.aiQuerySource = "inline",
                         !.inlineResponseBuffer = <<>>]],
            t, prompt, context)

submitInlineQuery(W, t, context) ==
  LET prompt == Trim(W.tab[t].inlineInputBuffer)
      H == W.tab[t].inlineHistory
  IN IF prompt = <<>> THEN exitInlineMode(W, t)
     ELSE queryOllama(
            [W EXCEPT !.tab[t] =
               [@ EXCEPT !.inlineHistory =
                           IF Len(H) = 0 \/ H[Len(H)] # prompt
                           THEN Append(H, prompt) ELSE H,
                         !.inlineHistoryIndex = -1,
                         !.inlineHistoryStash = <<>>,
                         !.inlineState = "streaming",
                         !.aiQuerySource = "inline",
                         !.inlineResponseBuffer = <<>>]],
            t, prompt, context)

\* handleInlineTyping gone wrong: the up arrow at the oldest entry wraps to
\* the newest
handleInlineTypingWrapping(W, t, data, context) ==
  LET T == W.tab[t]
  IN IF data = UP
       THEN IF Len(T.inlineHistory) = 0 THEN W
            ELSE IF T.inlineHistoryIndex = -1
              THEN inlineReplaceInput(
                     [W EXCEPT !.tab[t].inlineHistoryStash = T.inlineInputBuffer,
                               !.tab[t].inlineHistoryIndex = Len(T.inlineHistory) - 1],
                     t, T.inlineHistory[Len(T.inlineHistory)])
            ELSE IF T.inlineHistoryIndex > 0
              THEN inlineReplaceInput(
                     [W EXCEPT !.tab[t].inlineHistoryIndex = @ - 1],
                     t, T.inlineHistory[T.inlineHistoryIndex])
            ELSE inlineReplaceInput(
                   [W EXCEPT !.tab[t].inlineHistoryIndex = Len(T.inlineHistory) - 1],
                   t, T.inlineHistory[Len(T.inlineHistory)])
     ELSE IF data = DOWN
       THEN IF T.inlineHistoryIndex = -1 THEN W
            ELSE IF T.inlineHistoryIndex < Len(T.inlineHistory) - 1
              THEN inlineReplaceInput(
                     [W EXCEPT !.tab[t].inlineHistoryIndex = @ + 1],
                     t, T.inlineHistory[T.inlineHistoryIndex + 2])
            ELSE inlineReplaceInput(
                   [W EXCEPT !.tab[t].inlineHistoryIndex = -1],
                   t, T.inlineHistoryStash)
     ELSE IF data = TAB THEN handleTabCompletion(W, t)
     ELSE IF data = CR THEN submitInlineQuery(W, t, context)
     ELSE IF data = DEL \/ data = BS
       THEN IF Len(T.inlineInputBuffer) > 0
            THEN [W EXCEPT !.tab[t].inlineInputBuffer = SubSeq(@, 1, Len(@) - 1)]
            ELSE W
     ELSE IF data = ESC \/ data = CTRLC THEN exitInlineMode(W, t)
     ELSE IF data \in Printable
       THEN [W EXCEPT !.tab[t].inlineInputBuffer = Append(@, data)]
     ELSE W

handleInlineTyping(W, t, data, context) ==
  LET T == W.tab[t]
  IN IF data = UP
       THEN IF Len(T.inlineHistory) = 0 THEN W
            ELSE IF T.inlineHistoryIndex = -1
              THEN inlineReplaceInput(
                     [W EXCEPT !.tab[t].inlineHistoryStash = T.inlineInputBuffer,
                               !.tab[t].inlineHistoryIndex = Len(T.inlineHistory) - 1],
                     t, T.inlineHistory[Len(T.inlineHistory)])
            ELSE IF T.inlineHistoryIndex > 0
              THEN inlineReplaceInput(
                     [W EXCEPT !.tab[t].inlineHistoryIndex = @ - 1],
                     t, T.inlineHistory[T.inlineHistoryIndex])
            ELSE W
     ELSE IF data = DOWN
       THEN IF T.inlineHistoryIndex = -1 THEN W
            ELSE IF T.inlineHistoryIndex < Len(T.inlineHistory) - 1
              THEN inlineReplaceInput(
                     [W EXCEPT !.tab[t].inlineHistoryIndex = @ + 1],
                     t, T.inlineHistory[T.inlineHistoryIndex + 2])
            ELSE inlineReplaceInput(
                   [W EXCEPT !.tab[t].inlineHistoryIndex = -1],
                   t, T.inlineHistoryStash)
     ELSE IF data = TAB THEN handleTabCompletion(W, t)
     ELSE IF data = CR THEN submitInlineQuery(W, t, context)
     ELSE IF data = DEL \/ data = BS
       THEN IF Len(T.inlineInputBuffer) > 0
            THEN [W EXCEPT !.tab[t].inlineInputBuffer = SubSeq(@, 1, Len(@) - 1)]
            ELSE W
     ELSE IF data = ESC \/ data = CTRLC THEN exitInlineMode(W, t)
     ELSE IF data \in Printable
       THEN [W EXCEPT !.tab[t].inlineInputBuffer = Append(@, data)]
     ELSE W

\* handleInlineInput gone wrong: every key cancels a streaming response
handleInlineInputAnyKey(W, t, data, context) ==
  CASE W.tab[t].inlineState = "input" -> handleInlineTyping(W, t, data, context)
    [] W.tab[t].inlineState = "streaming" ->
         resetInlineState(ptyWrite(W, t, "cancel", <<CR>>), t)
    [] W.tab[t].inlineState = "approval" -> handleInlineApproval(W, t, data)
    [] OTHER -> W

handleInlineInput(W, t, data, context) ==
  CASE W.tab[t].inlineState = "input" -> handleInlineTyping(W, t, data, context)
    [] W.tab[t].inlineState = "streaming" ->
         IF data = ESC
         THEN resetInlineState(ptyWrite(W, t, "cancel", <<CR>>), t)
         ELSE W
    [] W.tab[t].inlineState = "approval" -> handleInlineApproval(W, t, data)
    [] OTHER -> W

\* termOnData gone wrong: keystrokes also reach the shell while a response
\* is streaming
termOnDataLeaky(W, t, data, context) ==
  IF W.tab[t].inlineState \notin {"idle", "streaming"}
  THEN handleInlineInput(W, t, data, context)
  ELSE ptyWrite(W, t, "onData", <<data>>)

\* newTerm.onData: the keystroke wiring of createTabInstance
termOnData(W, t, data, context) ==
  IF W.tab[t].inlineState # "idle" THEN handleInlineInput(W, t, data, context)
  ELSE ptyWrite(W, t, "onData", <<data>>)

\* onTermPaste gone wrong: the text goes to the prompt in every inline state
onTermPasteAnyState(W, text) ==
  LET t == activeTabId
  IN IF t \notin tabInstances THEN W
     ELSE IF W.tab[t].inlineState = "idle" THEN ptyWrite(W, t, "paste", text)
     ELSE [W EXCEPT !.tab[t].inlineInputBuffer = @ \o text]

\* onTermPaste
onTermPaste(W, text) ==
  LET t == activeTabId
  IN IF t \notin tabInstances THEN W
     ELSE IF W.tab[t].inlineState = "input"
       THEN [W EXCEPT !.tab[t].inlineInputBuffer = @ \o text]
     ELSE IF W.tab[t].inlineState = "idle" THEN ptyWrite(W, t, "paste", text)
     ELSE W

\* the callbacks of the approval workflow's setTimeout calls
timerCallback(W, tm) ==
  LET t == tm.tab
  IN CASE tm.kind = "reviewRun" ->
            LET W1 == [ptyWrite(W, t, "reviewRun", NewlinesToCR(tm.cmd) \o <<CR>>)
                         EXCEPT !.tab[t].inlineCommandIndex = @ + 1]
            IN IF W1.tab[t].inlineCommandIndex < Len(W1.tab[t].inlineCommands)
               THEN setTimeout([W1 EXCEPT !.tab[t].inlineReviewBusy = TRUE],
                               t, "reviewNext", <<>>)
               ELSE resetInlineState(W1, t)
       [] tm.kind = "reviewNext" -> [W EXCEPT !.tab[t].inlineReviewBusy = FALSE]
       [] tm.kind = "insert" -> ptyWrite(W, t, "insert", NewlinesToCR(tm.cmd))
       [] tm.kind = "run" -> ptyWrite(W, t, "run", NewlinesToCR(tm.cmd) \o <<CR>>)

Delay(kind) == IF kind = "reviewNext" THEN SETTLE_DELAY ELSE RUN_DELAY

\* a pending callback may run once no callback scheduled before it with a
\* delay that is not longer is still pending
MayFire(i) ==
  \A j \in 1..(i - 1) : Delay(timers[j].kind) > Delay(timers[i].kind)

RemoveAt(seq, i) == SubSeq(seq, 1, i - 1) \o SubSeq(seq, i + 1, Len(seq))

----------------------------------------------------------------------------
(* Renderer: the panel *)

closeAIPanel(W) == [W EXCEPT !.aiPanelOpen = FALSE, !.actionsShown = FALSE]

openAIPanel(W) == [W EXCEPT !.aiPanelOpen = TRUE]

sendPanelQuery(W, value, context) ==
  LET t == activeTabId
      prompt == Trim(value)
  IN IF t \notin tabInstances THEN W
     ELSE IF prompt = <<>> \/ W.tab[t].isStreaming THEN W
     ELSE queryOllama(
            [W EXCEPT !.tab[t] = [@ EXCEPT !.isStreaming = TRUE,
                                           !.panelSuggestedCommand = <<>>,
                                           !.panelResponseBuffer = <<>>,
                                           !.aiQuerySource = "panel"],
                      !.actionsShown = FALSE],
            t, prompt, context)

\* the click listener of #ai-actions
panelAction(W, action) ==
  LET t == activeTabId
      cmd == W.tab[t].panelSuggestedCommand
  IN IF t \notin tabInstances \/ cmd = <<>> THEN W
     ELSE CASE action = "insert" ->
                 closeAIPanel(ptyWrite(W, t, "panelInsert", NewlinesToCR(cmd)))
            [] action = "run" ->
                 closeAIPanel(ptyWrite(W, t, "panelRun", NewlinesToCR(cmd) \o <<CR>>))
            [] action = "cancel" -> closeAIPanel(W)
            [] OTHER -> W

----------------------------------------------------------------------------
(* Initial state: the startup block has created and shown the first tab,   *)
(* main has spawned its PTY with an empty conversationHistory.  The PTY of *)
(* an id is "none" before createTab, "running", "killed" once destroyTab   *)
(* has killed it and its exit event is due, "exited" after that event.     *)

NoEvent == [type |-> "start", tab |-> 0, data |-> "", req |-> 0]
Event(type, t, data, r) == [type |-> type, tab |-> t, data |-> data, req |-> r]

Init ==
  /\ tabInstances = {1}
  /\ activeTabId = 1
  /\ tab = [t \in TabIds |-> NewTab]
  /\ aiPanelOpen = FALSE
  /\ actionsShown = FALSE
  /\ timers = <<>>
  /\ toggleWait = <<>>
  /\ fsPending = <<>>
  /\ tabs = {1}
  /\ shell = [t \in TabIds |-> IF t = 1 THEN "running" ELSE "none"]
  /\ ledger = [t \in TabIds |-> <<>>]
  /\ model = TRUE
  /\ reqs = <<>>
  /\ ev = NoEvent
  /\ out = [writes |-> <<>>, errs |-> <<>>]

\* the step ends in world W having handled event e
Commit(W, e) ==
  /\ Len(W.timers) <= MaxTimers
  /\ Len(W.reqs) <= MaxRequests
  /\ \A t \in TabIds :
       \/ Len(W.tab[t].inlineInputBuffer) <= MaxInput
       \/ Len(W.tab[t].inlineInputBuffer) <= Len(tab[t].inlineInputBuffer)
       \/ /\ e.type \in {"paste", "fsResolve"}
          /\ Len(W.tab[t].inlineInputBuffer) <= MaxBuffer
  /\ tab' = W.tab
  /\ aiPanelOpen' = W.aiPanelOpen
  /\ actionsShown' = W.actionsShown
  /\ timers' = W.timers
  /\ fsPending' = W.fsPending
  /\ ledger' = W.ledger
  /\ reqs' = W.reqs
  /\ out' = [writes |-> W.writes, errs |-> W.errs]
  /\ ev' = e

\* bookkeeping: Escape in streaming cancels the request of the latest submit
LatestInline(rs, t) ==
  LET S == {r \in 1..Len(rs) : rs[r].tab = t /\ rs[r].source = "inline"}
  IN IF S = {} THEN 0 ELSE CHOOSE r \in S : \A q \in S : q <= r

MarkCancelled(W, t, data) ==
  LET r == LatestInline(W.reqs, t)
  IN IF tab[t].inlineState = "streaming" /\ data = ESC /\ r # 0
     THEN [W EXCEPT !.reqs[r].cancelled = TRUE]
     ELSE W

----------------------------------------------------------------------------
(* Actions: one per event handler *)

\* term.onData of tab t delivers keystroke data; context is what
\* captureTerminalContext would return
KeyStroke(t, data, context) ==
  /\ t \in tabInstances
  /\ Commit(MarkCancelled(termOnData(World, t, data, context), t, data),
            Event("key", t, data, 0))
  /\ UNCHANGED <<tabInstances, activeTabId, toggleWait, tabs, shell, model>>

Paste(text) ==
  /\ Commit(onTermPaste(World, text), Event("paste", activeTabId, text, 0))
  /\ UNCHANGED <<tabInstances, activeTabId, toggleWait, tabs, shell, model>>

\* the oldest fsComplete promise resolves with what main answers for the
\* directory listing entries.  ipcMain.handle answers the invocations in
\* the order they were made
FsResolve(entries) ==
  /\ fsPending # <<>>
  /\ LET p == Head(fsPending)
     IN Commit(completionThen([World EXCEPT !.fsPending = Tail(@)], p,
                              fsCompleteMain(entries, p.partial)),
               Event("fsResolve", p.tab,
                     [partial |-> p.partial,
                      matches |-> fsCompleteMain(entries, p.partial)], 0))
  /\ UNCHANGED <<tabInstances, activeTabId, toggleWait, tabs, shell, model>>

\* the oldest fsComplete promise rejects
FsReject ==
  /\ fsPending # <<>>
  /\ Commit(completionCatch([World EXCEPT !.fsPending = Tail(@)], Head(fsPending)),
            Event("fsReject", Head(fsPending).tab, "", 0))
  /\ UNCHANGED <<tabInstances, activeTabId, toggleWait, tabs, shell, model>>

\* onToggleAIPanel up to its await
ToggleAIPanel ==
  /\ IF aiPanelOpen
       THEN Commit(closeAIPanel(World), Event("toggle", activeTabId, "", 0))
            /\ UNCHANGED toggleWait
     ELSE IF activeTabId \notin tabInstances
       THEN Commit(World, Event("toggle", activeTabId, "", 0))
            /\ UNCHANGED toggleWait
     ELSE IF tab[activeTabId].inlineState # "idle"
       THEN Commit(exitInlineMode(World, activeTabId),
                   Event("toggle", activeTabId, "", 0))
            /\ UNCHANGED toggleWait
     ELSE /\ Len(toggleWait) < MaxToggles
          /\ Commit(World, Event("toggle", activeTabId, "", 0))
          /\ toggleWait' = Append(toggleWait, activeTabId)
  /\ UNCHANGED <<tabInstances, activeTabId, tabs, shell, model>>

\* onToggleAIPanel after configGet() has resolved
ToggleResume ==
  /\ toggleWait # <<>>
  /\ LET t == Head(toggleWait)
     IN Commit(IF ~model THEN openAIPanel(World) ELSE enterInlineMode(World, t),
               Event("toggleResume", t, "", 0))
  /\ toggleWait' = Tail(toggleWait)
  /\ UNCHANGED <<tabInstances, activeTabId, tabs, shell, model>>

\* click on the hint bar
HintBarClick ==
  /\ ~aiPanelOpen
  /\ Commit(openAIPanel(World), Event("hintBar", activeTabId, "", 0))
  /\ UNCHANGED <<tabInstances, activeTabId, toggleWait, tabs, shell, model>>

\* click on the panel's close button
PanelClose ==
  /\ aiPanelOpen
  /\ Commit(closeAIPanel(World), Event("panelClose", activeTabId, "", 0))
  /\ UNCHANGED <<tabInstances, activeTabId, toggleWait, tabs, shell, model>>

\* Enter or Send in the panel's query box, shown once a model is configured
PanelSend(value, context) ==
  /\ aiPanelOpen /\ model
  /\ Commit(sendPanelQuery(World, value, context),
            Event("panelSend", activeTabId, "", 0))
  /\ UNCHANGED <<tabInstances, activeTabId, toggleWait, tabs, shell, model>>

\* click on one of the visible panel action buttons
PanelAction(action) ==
  /\ aiPanelOpen /\ actionsShown
  /\ Commit(panelAction(World, action), Event("panelAction", activeTabId, action, 0))
  /\ UNCHANGED <<tabInstances, activeTabId, toggleWait, tabs, shell, model>>

\* a setTimeout callback runs
FireTimer(i) ==
  /\ i \in 1..Len(timers)
  /\ MayFire(i)
  /\ Commit(timerCallback([World EXCEPT !.timers = RemoveAt(@, i)], timers[i]),
            Event("timer", timers[i].tab, timers[i].kind, 0))
  /\ UNCHANGED <<tabInstances, activeTabId, toggleWait, tabs, shell, model>>

\* once a request has ended or failed no handler of it runs again: the
\* variables of its closure are garbage and are dropped from the state
Release(W, r) ==
  [W EXCEPT !.reqs[r].buffer = <<>>,
            !.reqs[r].currentAssistantResponse = <<>>,
            !.reqs[r].own = <<>>,
            !.reqs[r].nData = 0,
            !.reqs[r].base = <<>>,
            !.reqs[r].sent = <<>>,
            !.reqs[r].source = "null",
            !.reqs[r].cancelled = FALSE,
            !.reqs[r].nDoneLines = 0,
            !.reqs[r].malformed = FALSE]

\* the transport: 'data' and 'end' of the response, 'error' of the request.
\* A socket error reaches req.on('error') at any time before the response
\* has ended; a refused connection only before any data.
ResData(r, chunk) ==
  /\ r \in 1..Len(reqs)
  /\ reqs[r].phase = "active"
  /\ Commit(resOnData(World, r, chunk), Event("data", reqs[r].tab, "", r))
  /\ UNCHANGED <<tabInstances, activeTabId, toggleWait, tabs, shell, model>>

ResEnd(r) ==
  /\ r \in 1..Len(reqs)
  /\ reqs[r].phase = "active"
  /\ Commit(Release(resOnEnd(World, r), r), Event("end", reqs[r].tab, "", r))
  /\ UNCHANGED <<tabInstances, activeTabId, toggleWait, tabs, shell, model>>

ReqError(r, err) ==
  /\ r \in 1..Len(reqs)
  /\ reqs[r].phase = "active"
  /\ err = ECONNREFUSED => reqs[r].nData = 0
  /\ Commit(Release(reqOnError(World, r, err), r),
            Event("error", reqs[r].tab, err, r))
  /\ UNCHANGED <<tabInstances, activeTabId, toggleWait, tabs, shell, model>>

\* let nextTabId = 1; const id = String(nextTabId++): ids are handed out in
\* order and never again
nextTabId == 1 + Cardinality({t \in TabIds : shell[t] # "none"})

\* the "+" button or the menu's New Tab: createAndSwitchNewTab, with
\* createTabInstance, main's createTab and switchToTab
CreateTab ==
  /\ nextTabId <= MaxTabs
  /\ LET id == nextTabId
     IN /\ Commit([World EXCEPT !.tab[id] = NewTab, !.ledger[id] = <<>>],
                  Event("createTab", id, "", 0))
        /\ tabInstances' = tabInstances \cup {id}
        /\ tabs' = tabs \cup {id}
        /\ shell' = [shell EXCEPT ![id] = "running"]
        /\ activeTabId' = id
  /\ UNCHANGED <<toggleWait, model>>

\* remaining[remaining.length - 1]: the last key of the map, which keeps
\* insertion order
LastTab(S) == CHOOSE t \in S : \A u \in S : u <= t

\* closeTab gone wrong: the only tab can be closed
closeTabAny(S, t) == S \ {t}

\* closeTab: the ids it leaves in tabInstances S
closeTab(S, t) == IF Cardinality(S) <= 1 \/ t \notin S THEN S ELSE S \ {t}

\* click on the close button of tab t: closeTab, with main's destroyTab
\* where the tab is closed, and switchToTab where it was the active one
CloseTab(t) ==
  /\ t \in tabInstances
  /\ Commit(World, Event("closeTab", t, "", 0))
  /\ tabInstances' = closeTab(tabInstances, t)
  /\ tabs' = IF t \in tabInstances' THEN tabs ELSE tabs \ {t}
  /\ shell' = [shell EXCEPT ![t] = IF t \notin tabInstances' /\ t \in tabs
                                   THEN "killed" ELSE @]
  /\ activeTabId' = IF t \notin tabInstances' /\ activeTabId = t
                        /\ tabInstances' # {}
                    THEN LastTab(tabInstances') ELSE activeTabId
  /\ UNCHANGED <<toggleWait, model>>

\* click on the tab bar entry of tab t: switchToTab
SwitchTab(t) ==
  /\ t \in tabInstances
  /\ t # activeTabId
  /\ Commit(World, Event("switchTab", t, "", 0))
  /\ activeTabId' = t
  /\ UNCHANGED <<tabInstances, toggleWait, tabs, shell, model>>

\* onPtyData: output of the PTY of id t, which may still be on its way
\* when the PTY is killed.  The handler looks the tab up and writes to its
\* terminal display, which is no part of the state
onPtyData(W, t) == W

PtyData(t) ==
  /\ shell[t] \in {"running", "killed"}
  /\ Commit(onPtyData(World, t), Event("ptyData", t, "", 0))
  /\ UNCHANGED <<tabInstances, activeTabId, toggleWait, tabs, shell, model>>

\* onPtyExit: as onPtyData
onPtyExit(W, t) == W

\* tabShell.onExit: the shell has ended by itself or was killed; main
\* sends pty:exit and deletes the id from tabs
PtyExit(t) ==
  /\ shell[t] \in {"running", "killed"}
  /\ Commit(onPtyExit(World, t), Event("ptyExit", t, "", 0))
  /\ tabs' = tabs \ {t}
  /\ shell' = [shell EXCEPT ![t] = "exited"]
  /\ UNCHANGED <<tabInstances, activeTabId, toggleWait, model>>

----------------------------------------------------------------------------
(* Spec: the session controller with a well-formed transport.  A response  *)
(* arrives in one data event of whole lines, ending with the done line.    *)

\* {"commands":["x"]} and {"commands":["x","y"]}
OneCommand == <<"{", "\"", "c", "o", "m", "m", "a", "n", "d", "s", "\"", ":", "[",
                "\"", "x", "\"", "]", "}">>
TwoCommands == <<"{", "\"", "c", "o", "m", "m", "a", "n", "d", "s", "\"", ":", "[",
                 "\"", "x", "\"", ",", "\"", "y", "\"", "]", "}">>
Chunks == {OneCommand, TwoCommands}

KeysIn(state) ==
  CASE state = "idle" -> {"a"}
    [] state = "input" -> {"a", CR, ESC}
    [] state = "streaming" -> {ESC, "a"}
    [] state = "approval" -> {"r", "s", "c", "i", "a"}

Contexts == {<<>>}
PanelValues == {<<"b">>}
DoneLine == Piece("obj", <<>>, TRUE)
DataLines ==
  {<<Piece("obj", c, FALSE), PNl, DoneLine, PNl>> : c \in Chunks}
  \cup {<<DoneLine, PNl>>}
Errors == {ECONNRESET}

Next ==
  \/ \E t \in TabIds, c \in Contexts :
       \E d \in KeysIn(tab[t].inlineState) : KeyStroke(t, d, c)
  \/ ToggleAIPanel
  \/ ToggleResume
  \/ HintBarClick
  \/ PanelClose
  \/ \E v \in PanelValues, c \in Contexts : PanelSend(v, c)
  \/ \E a \in {"insert", "run", "cancel"} : PanelAction(a)
  \/ \E i \in 1..MaxTimers : FireTimer(i)
  \/ \E r \in 1..MaxRequests, ch \in DataLines :
       r <= Len(reqs) /\ reqs[r].nData < MaxData /\ ResData(r, ch)
  \/ \E r \in 1..MaxRequests : ResEnd(r)
  \/ \E r \in 1..MaxRequests, e \in Errors : ReqError(r, e)

Spec == Init /\ [][Next]_vars

----------------------------------------------------------------------------
(* Properties of the session controller, checked under Spec *)

Range(f) == {f[i] : i \in DOMAIN f}

\* the commands the model can suggest: what parseAiResponse finds in Chunks
SuggestedCommands == UNION {Range(parseAiResponse(c).commands) : c \in Chunks}

ContainsCommand(text) ==
  \E c \in SuggestedCommands : \E i \in 1..Len(text) : HasAt(text, i, c)

\* the command shown by showCommandReview or showCommandConfirm
UnderReview(T) ==
  IF T.inlineCommandIndex < Len(T.inlineCommands)
  THEN CommandAt(T.inlineCommands, T.inlineCommandIndex)
  ELSE CommandAt(T.inlineAcceptedCommands, 0)

BlankCR(w) == Len(w) <= 1 /\ \A i \in 1..Len(w) : w[i].text = <<CR>>

\* C1, for every step of keystroke, hotkey, timer and transport events (a
\* click on a panel button is no such event):
\*  - a step of a chunk, completion or failure event writes nothing to the
\*    shell or one blank carriage return;
\*  - a write containing the text of a suggested command is made by a
\*    setTimeout callback and is that callback's captured command, with or
\*    without a trailing carriage return;
\*  - a callback with a command is scheduled only by the keystroke r or i
\*    arriving in approval, and captures the command under review or
\*    confirmation at that moment.
C1_Step ==
  /\ ev'.type \in {"data", "end", "error"} => BlankCR(out'.writes)
  /\ ev'.type # "panelAction" =>
       \A i \in 1..Len(out'.writes) :
         ContainsCommand(out'.writes[i].text) =>
           /\ ev'.type = "timer"
           /\ \E k \in 1..Len(timers) :
                /\ timers[k].tab = out'.writes[i].tab
                /\ timers[k].kind = ev'.data
                /\ timers[k].cmd \in SuggestedCommands
                /\ out'.writes[i].text \in
                     {NewlinesToCR(timers[k].cmd),
                      NewlinesToCR(timers[k].cmd) \o <<CR>>}
  /\ IF ev'.type = "timer"
     THEN \A k \in 1..Len(timers') :
            timers'[k].cmd # <<>> => timers'[k] \in Range(timers)
     ELSE timers' # timers =>
            /\ ev'.type = "key"
            /\ ToLowerCase(ev'.data) \in {"r", "i"}
            /\ tab[ev'.tab].inlineState = "approval"
            /\ Len(timers') = Len(timers) + 1
            /\ SubSeq(timers', 1, Len(timers)) = timers
            /\ timers'[Len(timers')].tab = ev'.tab
            /\ timers'[Len(timers')].cmd = UnderReview(tab[ev'.tab])

\* C1: every step satisfies C1_Step, so command text reaches the shell only
\* through the callback of an r or i keystroke made in approval
C1_CommandOnlyByApprovalKey == [][C1_Step]_vars

\* C1 witness: the callback of the run key has written the confirmed command
C1_Witness ==
  /\ ev.type = "timer" /\ ev.data = "run"
  /\ Len(out.writes) = 1
  /\ out.writes[1].text = <<"x", CR>>

\* C2, the claim as stated: a data or end event of a request that was
\* cancelled with Escape while streaming leaves the session's response
\* buffer, its mode and its commands as they were.
C2_Step ==
  (/\ ev'.type \in {"data", "end"}
   /\ ev'.req \in 1..Len(reqs)
   /\ reqs[ev'.req].cancelled)
  => /\ tab'[ev'.tab].inlineResponseBuffer = tab[ev'.tab].inlineResponseBuffer
     /\ tab'[ev'.tab].inlineState = tab[ev'.tab].inlineState
     /\ tab'[ev'.tab].inlineCommands = tab[ev'.tab].inlineCommands

\* C2: every step satisfies C2_Step, so chunks and completions of a
\* cancelled request are discarded
C2_CancelledIsDiscarded == [][C2_Step]_vars

\* a request is in flight: it has delivered neither ai:done nor ai:error
InFlight(r) == reqs[r].phase = "active" /\ ~reqs[r].doneSent

\* C7, the claim as stated: no tab ever has two requests in flight.
C7_OneQueryInFlight ==
  \A t \in TabIds :
    Cardinality({r \in 1..Len(reqs) : reqs[r].tab = t /\ InFlight(r)}) <= 1

\* C7 witness: Escape, hotkey, prompt, Enter: the second inline query is
\* issued while the cancelled first one is still in flight
C7_Witness ==
  /\ Len(reqs) = 2
  /\ InFlight(1) /\ reqs[1].source = "inline" /\ reqs[1].cancelled
  /\ InFlight(2) /\ reqs[2].source = "inline"
  /\ ev.type = "key" /\ ev.data = CR

\* C9, for every keystroke step: the step writes at term.onData's
\* passthrough exactly when the tab was idle, and then writes the keystroke
\* and nothing else; in input, streaming and approval whatever the step
\* writes is a blank carriage return, the same for every key.
C9_Step ==
  ev'.type = "key" =>
    LET t == ev'.tab
        w == out'.writes
    IN /\ tab[t].inlineState = "idle"
            <=> \E i \in 1..Len(w) : w[i].site = "onData"
       /\ tab[t].inlineState = "idle"
            => w = <<[tab |-> t, site |-> "onData", text |-> <<ev'.data>>]>>
       /\ tab[t].inlineState # "idle"
            => \A i \in 1..Len(w) : w[i].text = <<CR>>

\* C9: every step satisfies C9_Step, so a keystroke is forwarded to the
\* shell if and only if it arrives in idle
C9_PassthroughIffIdle == [][C9_Step]_vars

\* C9 witness: back in idle after an inline query, a keystroke has been
\* written to the shell as it arrived
C9_Witness ==
  /\ ev.type = "key" /\ ev.data = "a"
  /\ out.writes = <<[tab |-> 1, site |-> "onData", text |-> <<"a">>]>>
  /\ tab[1].inlineState = "idle"
  /\ tab[1].inlineHistory # <<>>

\* C10, the claim as stated: an ai:done sent while the tab is streaming
\* leaves it idle if its response buffer parses to no command, in approval
\* past the review with that command accepted if to one, in approval with
\* the review at index 0 if to more.
C10_Step ==
  (/\ ev'.type \in {"data", "end"}
   /\ ev'.req \in 1..Len(reqs)
   /\ reqs'[ev'.req].nDone > reqs[ev'.req].nDone
   /\ tab[ev'.tab].inlineState = "streaming")
  => LET T == tab'[ev'.tab]
         n == Len(T.inlineCommands)
     IN \/ T.inlineState = "idle" /\ n = 0
        \/ /\ T.inlineState = "approval" /\ n = 1
           /\ T.inlineCommandIndex = 1
           /\ T.inlineAcceptedCommands = T.inlineCommands
        \/ /\ T.inlineState = "approval" /\ n > 1
           /\ T.inlineCommandIndex = 0
           /\ T.inlineAcceptedCommands = <<>>

\* C10: every step satisfies C10_Step, so the number of parsed commands
\* decides the mode a completion in streaming leads to
C10_CompletionDecidesMode == [][C10_Step]_vars

----------------------------------------------------------------------------
(* SpecGw: queryOllama under every transport.  One inline query of tab 1   *)
(* at a time, issued on a fresh ledger or on the ledger that ten completed *)
(* exchanges (hotkey, a, Enter, the answer OneCommand, c) have filled to   *)
(* MAX_HISTORY_MESSAGES; the response arrives as any sequence of up to     *)
(* MaxGwData data events: whole lines, a line split over two events, done  *)
(* lines (one, two, unterminated), lines that are no JSON, blank lines;    *)
(* then 'end', or 'error' at any point.                                    *)

\* one completed exchange: the prompt a, answered with OneCommand
Exchange ==
  <<[role |-> "user", content |-> <<"a">>],
    [role |-> "assistant", content |-> OneCommand]>>

RECURSIVE Exchanges(_)
Exchanges(n) == IF n = 0 THEN <<>> ELSE Exchange \o Exchanges(n - 1)

\* conversationHistory after MAX_HISTORY_MESSAGES / 2 exchanges
FullLedger == Exchanges(MAX_HISTORY_MESSAGES \div 2)

\* the tab after those exchanges: idle again, the prompt in its history
UsedTab == [NewTab EXCEPT !.inlineHistory = <<<<"a">>>>]

InitGw ==
  /\ tabInstances = {1}
  /\ activeTabId = 1
  /\ \/ tab = [t \in TabIds |-> NewTab] /\ ledger = [t \in TabIds |-> <<>>]
     \/ /\ tab = [t \in TabIds |-> IF t = 1 THEN UsedTab ELSE NewTab]
        /\ ledger = [t \in TabIds |-> IF t = 1 THEN FullLedger ELSE <<>>]
  /\ aiPanelOpen = FALSE
  /\ actionsShown = FALSE
  /\ timers = <<>>
  /\ toggleWait = <<>>
  /\ fsPending = <<>>
  /\ tabs = {1}
  /\ shell = [t \in TabIds |-> IF t = 1 THEN "running" ELSE "none"]
  /\ model = TRUE
  /\ reqs = <<>>
  /\ ev = NoEvent
  /\ out = [writes |-> <<>>, errs |-> <<>>]

GwKeysIn(state) ==
  CASE state = "idle" -> {}
    [] state = "input" -> {"a", CR}
    [] state = "streaming" -> {"a"}
    [] state = "approval" -> {"c"}

ContentLine == Piece("obj", OneCommand, FALSE)
GwLines ==
  { <<ContentLine, PNl>>,
    <<Piece("head", OneCommand, FALSE)>>,
    <<Piece("tail", OneCommand, FALSE), PNl>>,
    <<DoneLine, PNl>>,
    <<DoneLine, PNl, DoneLine, PNl>>,
    <<ContentLine, PNl, DoneLine>>,
    <<PJunk, PNl>>,
    <<PSp, PNl>> }

NextGw ==
  \/ /\ Len(reqs) < MaxGwRequests
     /\ \A r \in 1..Len(reqs) : reqs[r].phase # "active"
     /\ ToggleAIPanel
  \/ ToggleResume
  \/ \E d \in GwKeysIn(tab[1].inlineState) : KeyStroke(1, d, <<>>)
  \/ \E r \in 1..MaxGwRequests, ch \in GwLines :
       r <= Len(reqs) /\ reqs[r].nData < MaxGwData /\ ResData(r, ch)
  \/ \E r \in 1..MaxGwRequests : ResEnd(r)
  \/ \E r \in 1..MaxGwRequests, e \in {ECONNREFUSED, ECONNRESET} : ReqError(r, e)

SpecGw == InitGw /\ [][NextGw]_vars

----------------------------------------------------------------------------
(* Properties of queryOllama, checked under SpecGw *)

\* C3, the claim as stated: the step of a request's 'error' event leaves
\* the tab's ledger equal to what it was when queryOllama was called.
C3_Step ==
  (ev'.type = "error" /\ ev'.req \in 1..Len(reqs))
  => ledger'[ev'.tab] = reqs[ev'.req].base

\* C3: every step satisfies C3_Step, so a failed query leaves the ledger as
\* it was before the query
C3_FailureRestoresLedger == [][C3_Step]_vars

\* C4, the claim as stated: no ledger is ever longer than
\* MAX_HISTORY_MESSAGES.
C4_LedgerBound == \A t \in TabIds : Len(ledger[t]) <= MAX_HISTORY_MESSAGES

\* C5: no request has sent ai:done more than once.
C5_DoneAtMostOnce == \A r \in 1..Len(reqs) : reqs[r].nDone <= 1

\* C5 witness: a data event has delivered a second line carrying done
C5_Witness ==
  /\ ev.type = "data"
  /\ ev.req \in 1..Len(reqs)
  /\ reqs[ev.req].nDoneLines >= 2
  /\ reqs[ev.req].nDone = 1

\* C6, the claim as stated: no request has sent both ai:done and ai:error.
C6_DoneExcludesError ==
  \A r \in 1..Len(reqs) : ~(reqs[r].nDone >= 1 /\ reqs[r].nError >= 1)

\* C8, the claim as stated, for an inline query the user has not cancelled:
\* the step of its 'error' event shows one error line and leaves the tab
\* idle; and when a response that held a line that is no JSON ends, the
\* request has sent one ai:error and the tab is idle.
C8_Step ==
  LET r == ev'.req
  IN (r \in 1..Len(reqs) /\ reqs[r].source = "inline" /\ ~reqs[r].cancelled)
     => /\ ev'.type = "error"
             => /\ Len(out'.errs) = 1
                /\ tab'[ev'.tab].inlineState = "idle"
        /\ (ev'.type = "end" /\ reqs[r].malformed)
             => /\ reqs'[r].nError = 1
                /\ tab'[ev'.tab].inlineState = "idle"

\* C8: every step satisfies C8_Step, so every transport failure of an
\* inline query shows one failure message and leaves the tab idle
C8_FailureShownOnce == [][C8_Step]_vars

----------------------------------------------------------------------------
(* SpecAp: the approval workflow.  Inline queries of tab 1 answered with   *)
(* one command of two lines, with two commands or with three; every        *)
(* approval key, in either case, Escape and a key that is none of them;    *)
(* the hotkey; the setTimeout callbacks in every order the delays allow.   *)

\* {"commands":["x\ny"]}, {"commands":["x\ny","z"]}, {"commands":["x","y","z"]}
ApOne == <<"{", "\"", "c", "o", "m", "m", "a", "n", "d", "s", "\"", ":", "[",
           "\"", "x", "\\", "n", "y", "\"", "]", "}">>
ApTwo == <<"{", "\"", "c", "o", "m", "m", "a", "n", "d", "s", "\"", ":", "[",
           "\"", "x", "\\", "n", "y", "\"", ",", "\"", "z", "\"", "]", "}">>
ApThree == <<"{", "\"", "c", "o", "m", "m", "a", "n", "d", "s", "\"", ":", "[",
             "\"", "x", "\"", ",", "\"", "y", "\"", ",", "\"", "z", "\"", "]", "}">>
ApChunks == {ApOne, ApTwo, ApThree}

ApKeysIn(state) ==
  CASE state = "idle" -> {}
    [] state = "input" -> {"a", CR}
    [] state = "streaming" -> {}
    [] state = "approval" -> {"r", "R", "s", "c", ESC, "i", "a"}

ApLines == {<<Piece("obj", c, FALSE), PNl, DoneLine, PNl>> : c \in ApChunks}

NextAp ==
  \/ /\ tab[1].inlineState = "idle" => Len(reqs) < MaxRequests
     /\ ToggleAIPanel
  \/ ToggleResume
  \/ \E d \in ApKeysIn(tab[1].inlineState) : KeyStroke(1, d, <<>>)
  \/ \E i \in 1..MaxTimers : FireTimer(i)
  \/ \E r \in 1..MaxRequests, ch \in ApLines :
       r <= Len(reqs) /\ reqs[r].nData < MaxData /\ ResData(r, ch)
  \/ \E r \in 1..MaxRequests : ResEnd(r)

SpecAp == Init /\ [][NextAp]_vars

----------------------------------------------------------------------------
(* Properties of the approval workflow, checked under SpecAp *)

\* the text a command reaches the shell as: a carriage return for every
\* newline
Converted(cmd) ==
  [i \in 1..Len(cmd) |-> IF cmd[i] = "\n" THEN "\r" ELSE cmd[i]]

\* the tab waits for a key on the confirm prompt of its one command
ConfirmPhase(T) ==
  /\ T.inlineState = "approval"
  /\ ~T.inlineReviewBusy
  /\ T.inlineCommandIndex >= Len(T.inlineCommands)

\* the tab waits for a key on the review prompt of command inlineCommandIndex
ReviewPhase(T) ==
  /\ T.inlineState = "approval"
  /\ ~T.inlineReviewBusy
  /\ T.inlineCommandIndex < Len(T.inlineCommands)

\* the shell writes of a step that carry more than a blank carriage return
TextWrites(w) == {i \in 1..Len(w) : w[i].text # <<CR>>}

\* C11, for every step:
\*  - the run key (r, R) or the insert key (i) on the confirm prompt leaves
\*    the tab idle, writes one blank carriage return and schedules one
\*    callback, which holds the confirmed command;
\*  - the step of that callback makes one shell write: the converted
\*    command followed by a carriage return for run, the converted command
\*    alone for insert; it leaves every tab as it was.
C11_Step ==
  /\ (/\ ev'.type = "key"
      /\ ConfirmPhase(tab[ev'.tab])
      /\ ToLowerCase(ev'.data) \in {"r", "i"})
     => /\ tab'[ev'.tab].inlineState = "idle"
        /\ Len(out'.writes) = 1 /\ out'.writes[1].text = <<CR>>
        /\ timers' = Append(timers,
             [tab |-> ev'.tab,
              kind |-> IF ToLowerCase(ev'.data) = "r" THEN "run" ELSE "insert",
              cmd |-> tab[ev'.tab].inlineAcceptedCommands[1]])
  /\ (ev'.type = "timer" /\ ev'.data \in {"run", "insert"})
     => \E k \in 1..Len(timers) :
          /\ timers[k].kind = ev'.data /\ timers[k].tab = ev'.tab
          /\ timers' = RemoveAt(timers, k)
          /\ Len(out'.writes) = 1
          /\ out'.writes[1].tab = ev'.tab
          /\ out'.writes[1].text =
               IF ev'.data = "run" THEN Converted(timers[k].cmd) \o <<"\r">>
               ELSE Converted(timers[k].cmd)
          /\ tab' = tab

\* C11: every step satisfies C11_Step, so run and insert on the confirm
\* prompt each result in one shell write of the converted command, with the
\* final carriage return for run and without it for insert, the tab idle
C11_ConfirmRunInsert == [][C11_Step]_vars

\* C11 witness: the callback of the insert key has written the two-line
\* command with a carriage return between its lines and none after it
C11_Witness ==
  /\ ev.type = "timer" /\ ev.data = "insert"
  /\ Len(out.writes) = 1
  /\ out.writes[1].text = <<"x", "\r", "y">>
  /\ tab[1].inlineState = "idle"

\* C12, the claim as stated, for every step:
\*  - the run key (r, R) on the review prompt of command i keeps the tab in
\*    approval, writes one blank carriage return and schedules one callback
\*    holding command i;
\*  - the step of that callback finds the tab in approval with command i
\*    under review and makes one shell write, the converted command and a
\*    carriage return; if i is not the last index it leaves the tab in
\*    approval at index i + 1, busy, with the settle callback pending,
\*    otherwise idle;
\*  - the step of the settle callback leaves the tab on the review prompt
\*    of the command at its index.
C12_Step ==
  /\ (/\ ev'.type = "key"
      /\ ReviewPhase(tab[ev'.tab])
      /\ ToLowerCase(ev'.data) = "r")
     => /\ tab' = tab
        /\ Len(out'.writes) = 1 /\ out'.writes[1].text = <<CR>>
        /\ timers' = Append(timers,
             [tab |-> ev'.tab, kind |-> "reviewRun",
              cmd |-> tab[ev'.tab].inlineCommands[tab[ev'.tab].inlineCommandIndex + 1]])
  /\ (ev'.type = "timer" /\ ev'.data = "reviewRun")
     => LET T == tab[ev'.tab]
            i == T.inlineCommandIndex
            n == Len(T.inlineCommands)
        IN \E k \in 1..Len(timers) :
             /\ timers[k].kind = "reviewRun" /\ timers[k].tab = ev'.tab
             /\ Len(out'.writes) = 1
             /\ out'.writes[1].text = Converted(timers[k].cmd) \o <<"\r">>
             /\ ReviewPhase(T)
             /\ T.inlineCommands[i + 1] = timers[k].cmd
             /\ IF i + 1 < n
                THEN /\ tab'[ev'.tab] = [T EXCEPT !.inlineCommandIndex = i + 1,
                                                  !.inlineReviewBusy = TRUE]
                     /\ timers' = Append(RemoveAt(timers, k),
                          [tab |-> ev'.tab, kind |-> "reviewNext", cmd |-> <<>>])
                ELSE /\ tab'[ev'.tab].inlineState = "idle"
                     /\ timers' = RemoveAt(timers, k)
  /\ (ev'.type = "timer" /\ ev'.data = "reviewNext")
     => /\ ReviewPhase(tab'[ev'.tab])
        /\ tab'[ev'.tab] = [tab[ev'.tab] EXCEPT !.inlineReviewBusy = FALSE]
        /\ out'.writes = <<>>

\* C12: every step satisfies C12_Step, so the run key on the review prompt
\* of command i executes command i and leads to the review of command i + 1
\* after the settle delay, or to idle after the last command
C12_ReviewRun == [][C12_Step]_vars

\* C12 witness: r twice within RUN_DELAY on the review prompt of command 0
\* of two: the second callback has written command 0 a second time and
\* left the tab idle while the settle callback of the first is pending;
\* command 1 was never under review
C12_Witness ==
  /\ ev.type = "timer" /\ ev.data = "reviewRun"
  /\ Len(out.writes) = 1
  /\ out.writes[1].text = <<"x", "\r", "y", "\r">>
  /\ tab[1].inlineState = "idle"
  /\ \E k \in 1..Len(timers) : timers[k].kind = "reviewNext"

\* C13, for every step of the skip key (s) on the review prompt of command
\* i: the step writes no command text and schedules no callback; if i is
\* not the last index it changes the cursor to i + 1 and nothing else and
\* writes nothing, otherwise it leaves the tab idle.
C13_Step ==
  (/\ ev'.type = "key"
   /\ ReviewPhase(tab[ev'.tab])
   /\ ToLowerCase(ev'.data) = "s")
  => LET T == tab[ev'.tab]
         i == T.inlineCommandIndex
     IN /\ TextWrites(out'.writes) = {}
        /\ timers' = timers
        /\ IF i + 1 < Len(T.inlineCommands)
           THEN /\ tab'[ev'.tab] = [T EXCEPT !.inlineCommandIndex = i + 1]
                /\ out'.writes = <<>>
           ELSE tab'[ev'.tab].inlineState = "idle"

\* C13: every step satisfies C13_Step, so skip never writes command i to
\* the shell and advances the cursor, or returns to idle after the last
C13_SkipAdvances == [][C13_Step]_vars

\* C13 witness: skip on command 0 of three has advanced the review to
\* command 1 without a shell write
C13_Witness ==
  /\ ev.type = "key" /\ ev.data = "s"
  /\ tab[1].inlineState = "approval"
  /\ tab[1].inlineCommandIndex = 1
  /\ Len(tab[1].inlineCommands) = 3
  /\ out.writes = <<>>
  /\ timers = <<>>

\* the commands from the cursor to the end of the review
Remaining(T) ==
  {T.inlineCommands[j] : j \in (T.inlineCommandIndex + 1)..Len(T.inlineCommands)}

\* C14, the claim as stated, for every step of a cancel key (c, Escape) on
\* the review prompt of command i: the step leaves the tab idle with no
\* commands, writes no command text, and leaves no callback pending that
\* would write one of the commands i..n-1 (callbacks being the only
\* writers of command text, none of them is written afterwards).
C14_Step ==
  (/\ ev'.type = "key"
   /\ ReviewPhase(tab[ev'.tab])
   /\ (ToLowerCase(ev'.data) = "c" \/ ev'.data = ESC))
  => /\ tab'[ev'.tab].inlineState = "idle"
     /\ tab'[ev'.tab].inlineCommands = <<>>
     /\ TextWrites(out'.writes) = {}
     /\ \A k \in 1..Len(timers') :
          timers'[k].tab = ev'.tab => timers'[k].cmd \notin Remaining(tab[ev'.tab])

\* C14: every step satisfies C14_Step, so cancel on the review prompt of
\* command i returns to idle and none of the commands i..n-1 is written
\* afterwards
C14_CancelDiscards == [][C14_Step]_vars

\* C14 witness: cancel pressed within RUN_DELAY of run: the tab is idle and
\* the callback that will write command 0 is pending
C14_Witness ==
  /\ ev.type = "key" /\ ev.data = "c"
  /\ tab[1].inlineState = "idle"
  /\ timers = <<[tab |-> 1, kind |-> "reviewRun", cmd |-> <<"x", "\n", "y">>]>>

\* the settle callback of a run on tab t is pending
Settling(t) ==
  \E k \in 1..Len(timers) : timers[k].tab = t /\ timers[k].kind = "reviewNext"

\* C15, for every step:
\*  - the tab becomes busy only in the step of a run callback that has
\*    executed its command with commands left to review, and that step
\*    schedules the settle callback; a busy tab has a settle callback
\*    pending, and it stops being busy only when one runs or when the
\*    session is reset (hotkey);
\*  - a keystroke arriving while the tab is busy changes no field of any
\*    tab, writes nothing to the shell and schedules nothing.
C15_Step ==
  /\ \A t \in TabIds :
       /\ tab[t].inlineReviewBusy => Settling(t)
       /\ (tab'[t].inlineReviewBusy /\ ~tab[t].inlineReviewBusy)
            => /\ ev'.type = "timer" /\ ev'.data = "reviewRun" /\ ev'.tab = t
               /\ TextWrites(out'.writes) # {}
               /\ tab'[t].inlineCommandIndex < Len(tab'[t].inlineCommands)
       /\ (tab[t].inlineReviewBusy /\ ~tab'[t].inlineReviewBusy)
            => \/ ev'.type = "timer" /\ ev'.data = "reviewNext" /\ ev'.tab = t
               \/ tab'[t].inlineState = "idle"
  /\ (ev'.type = "key" /\ tab[ev'.tab].inlineReviewBusy)
       => /\ tab' = tab
          /\ out'.writes = <<>>
          /\ timers' = timers

\* C15: every step satisfies C15_Step, so during the settle delay of a run
\* every approval keystroke is ignored
C15_SettleIgnoresKeys == [][C15_Step]_vars

\* C15 witness: the run key has arrived during the settle delay after
\* command 0 and has been ignored
C15_Witness ==
  /\ ev.type = "key" /\ ev.data = "r"
  /\ tab[1].inlineState = "approval"
  /\ tab[1].inlineReviewBusy
  /\ tab[1].inlineCommandIndex = 1
  /\ timers = <<[tab |-> 1, kind |-> "reviewNext", cmd |-> <<>>]>>
  /\ out.writes = <<>>

----------------------------------------------------------------------------
(* SpecHist: the prompt and its history.  Tab 1 starts with the history    *)
(* that none, one, two or three earlier queries have left (each failed or  *)
(* was answered without a command, so the tab is idle again); the user     *)
(* types a or b, erases, walks the history with the arrow keys, submits;   *)
(* the query fails or is answered with an empty response.                  *)

HistSeeds ==
  { <<>>, <<<<"a">>>>, <<<<"a">>, <<"b">>>>, <<<<"a">>, <<"b">>, <<"a">>>> }

InitHist ==
  /\ tabInstances = {1}
  /\ activeTabId = 1
  /\ \E h \in HistSeeds :
       tab = [t \in TabIds |-> IF t = 1 THEN [NewTab EXCEPT !.inlineHistory = h]
                               ELSE NewTab]
  /\ aiPanelOpen = FALSE
  /\ actionsShown = FALSE
  /\ timers = <<>>
  /\ toggleWait = <<>>
  /\ fsPending = <<>>
  /\ tabs = {1}
  /\ shell = [t \in TabIds |-> IF t = 1 THEN "running" ELSE "none"]
  /\ ledger = [t \in TabIds |-> <<>>]
  /\ model = TRUE
  /\ reqs = <<>>
  /\ ev = NoEvent
  /\ out = [writes |-> <<>>, errs |-> <<>>]

HistKeysIn(state) ==
  CASE state = "idle" -> {}
    [] state = "input" -> {"a", "b", UP, DOWN, DEL, CR}
    [] state = "streaming" -> {}
    [] state = "approval" -> {}

NextHist ==
  \/ Len(reqs) < MaxRequests /\ ToggleAIPanel
  \/ ToggleResume
  \/ \E d \in HistKeysIn(tab[1].inlineState) : KeyStroke(1, d, <<>>)
  \/ \E r \in 1..MaxRequests : ResEnd(r)
  \/ \E r \in 1..MaxRequests : ReqError(r, ECONNRESET)

SpecHist == InitHist /\ [][NextHist]_vars

----------------------------------------------------------------------------
(* Properties of the prompt history, checked under SpecHist *)

\* C16: in every state, no tab's inlineHistory holds the same prompt at two
\* consecutive positions.
C16_NoConsecutiveDuplicates ==
  \A t \in TabIds :
    \A i \in 1..(Len(tab[t].inlineHistory) - 1) :
      tab[t].inlineHistory[i] # tab[t].inlineHistory[i + 1]

\* C16 witness: the prompt a has been submitted twice in a row (the ledger
\* holds both user messages) and is in the history once
C16_Witness ==
  /\ ev.type = "key" /\ ev.data = CR
  /\ ledger[1] = <<[role |-> "user", content |-> <<"a">>],
                   [role |-> "user", content |-> <<"a">>]>>
  /\ tab[1].inlineHistory = <<<<"a">>>>

\* handleInlineTyping of the same arrow key k times in a row
RECURSIVE Press(_, _, _, _)
Press(W, t, key, k) ==
  IF k = 0 THEN W ELSE Press(handleInlineTyping(W, t, key, <<>>), t, key, k - 1)

\* C17: in every state with a tab on the prompt, the history cursor at -1
\* and a history that is not empty, arrow-up k times followed by arrow-down
\* k times, for every k in 1..MaxPresses (more than the history is long),
\* ends with the input buffer it started from and the cursor at -1.
C17_UpDownRestores ==
  \A t \in tabInstances :
    (/\ tab[t].inlineState = "input"
     /\ tab[t].inlineHistoryIndex = -1
     /\ tab[t].inlineHistory # <<>>)
    => \A k \in 1..MaxPresses :
         LET W == Press(Press(World, t, UP, k), t, DOWN, k)
         IN /\ W.tab[t].inlineInputBuffer = tab[t].inlineInputBuffer
            /\ W.tab[t].inlineHistoryIndex = -1

\* C17 witness: with b typed and three prompts in the history the user has
\* walked up and the arrow-down key has brought b back from the stash
C17_Witness ==
  /\ ev.type = "key" /\ ev.data = DOWN
  /\ tab[1].inlineState = "input"
  /\ tab[1].inlineHistoryIndex = -1
  /\ tab[1].inlineInputBuffer = <<"b">>
  /\ tab[1].inlineHistoryStash = <<"b">>
  /\ Len(tab[1].inlineHistory) = 3

\* C18, the claim as stated: on every ledger the system reaches, the
\* rollback applied twice gives the ledger the rollback applied once gives.
C18_RollbackIdempotent ==
  \A t \in TabIds :
    rollbackLastUser(rollbackLastUser(ledger[t])) = rollbackLastUser(ledger[t])

\* C18 witness: a query answered with an empty response has left its user
\* message without an assistant message, and the next query has pushed a
\* second user message
C18_Witness ==
  /\ Len(ledger[1]) = 2
  /\ ledger[1][1].role = "user" /\ ledger[1][2].role = "user"
  /\ Len(reqs) = 2 /\ reqs[1].phase = "ended" /\ reqs[2].phase = "active"

----------------------------------------------------------------------------
(* SpecTabs: two tabs.  The user opens a second tab, switches, closes a    *)
(* tab; a shell ends by itself or is killed with its tab, its output and   *)
(* its exit event arriving afterwards; inline queries run in either tab    *)
(* and are answered with one command or fail, also after their tab is      *)
(* gone.                                                                   *)

TabKeysIn(state) ==
  CASE state = "idle" -> {}
    [] state = "input" -> {"a", CR}
    [] state = "streaming" -> {}
    [] state = "approval" -> {"c"}

TabLines == {<<Piece("obj", OneCommand, FALSE), PNl, DoneLine, PNl>>}

NextTabs ==
  \/ CreateTab
  \/ \E t \in TabIds : CloseTab(t)
  \/ \E t \in TabIds : SwitchTab(t)
  \/ \E t \in TabIds : PtyData(t)
  \/ \E t \in TabIds : PtyExit(t)
  \/ Len(reqs) < MaxRequests /\ ToggleAIPanel
  \/ ToggleResume
  \/ \E t \in TabIds : \E d \in TabKeysIn(tab[t].inlineState) : KeyStroke(t, d, <<>>)
  \/ \E r \in 1..MaxRequests, ch \in TabLines :
       r <= Len(reqs) /\ reqs[r].nData < MaxData /\ ResData(r, ch)
  \/ \E r \in 1..MaxRequests : ResEnd(r)
  \/ \E r \in 1..MaxRequests : ReqError(r, ECONNRESET)

SpecTabs == Init /\ [][NextTabs]_vars

----------------------------------------------------------------------------
(* Properties of the tab registry, checked under SpecTabs *)

\* C19, for every step of a chunk or completion ('data', 'end'), failure
\* ('error'), shell-output or shell-exit event whose id is not in
\* tabInstances: no field of any tab changes, the ledger of every tab main
\* knows stays as it is, the panel and the pending callbacks stay as they
\* are, and nothing is written to a shell or shown as an error.
C19_Step ==
  (/\ ev'.type \in {"data", "end", "error", "ptyData", "ptyExit"}
   /\ ev'.tab \notin tabInstances)
  => /\ tab' = tab
     /\ \A t \in tabs' : ledger'[t] = ledger[t]
     /\ aiPanelOpen' = aiPanelOpen /\ actionsShown' = actionsShown
     /\ timers' = timers
     /\ out'.writes = <<>> /\ out'.errs = <<>>

\* C19: every step satisfies C19_Step, so events for an id that is not in
\* the registry change no session and write to no shell
C19_UnknownIdDropped == [][C19_Step]_vars

\* C19 witness: tab 2 was closed while its query was streaming, and the
\* response, chunk and completion, has arrived for it
C19_Witness ==
  /\ ev.type = "data" /\ ev.tab = 2
  /\ 2 \notin tabInstances
  /\ tab[2].inlineState = "streaming"
  /\ ev.req \in 1..Len(reqs)
  /\ reqs[ev.req].nDone = 1 /\ reqs[ev.req].sent # <<>>

\* C20, for every step of a keystroke, chunk, completion or failure event
\* addressed to tab A: every field of every other tab and the ledger of
\* every other tab stay as they are, and whatever the step writes to a
\* shell or shows as an error goes to A's.
C20_Step ==
  ev'.type \in {"key", "data", "end", "error"}
  => /\ \A B \in TabIds \ {ev'.tab} :
          tab'[B] = tab[B] /\ ledger'[B] = ledger[B]
     /\ \A i \in 1..Len(out'.writes) : out'.writes[i].tab = ev'.tab
     /\ \A i \in 1..Len(out'.errs) : out'.errs[i].tab = ev'.tab

\* C20: every step satisfies C20_Step, so an event addressed to one session
\* modifies no other session, its ledger or its shell
C20_SessionsIndependent == [][C20_Step]_vars

\* C20 witness: with tab 2 on display and streaming, the response of tab
\* 1's query has arrived and put tab 1 into approval
C20_Witness ==
  /\ ev.type = "data" /\ ev.tab = 1
  /\ tabInstances = {1, 2} /\ activeTabId = 2
  /\ tab[1].inlineState = "approval"
  /\ tab[2].inlineState = "streaming"
  /\ tab[2].inlineResponseBuffer = <<>>
  /\ ledger[1] # <<>> /\ ledger[2] # <<>> /\ ledger[1] # ledger[2]

----------------------------------------------------------------------------
(* SpecPrompt: the inline prompt of one tab, typing, paste, filesystem     *)
(* completion and submit.  Tab 1 starts with one of the histories of       *)
(* SpecHist.  The user types a, erases, recalls the history, presses Tab,  *)
(* submits, or leaves with Escape or the hotkey and comes back; text is    *)
(* pasted in every inline state; a completion request is answered for one  *)
(* of a few directory listings, or fails, at any later time.  One query is *)
(* issued and answered with one command.                                   *)

PromptKeysIn(state) ==
  CASE state = "idle" -> {}
    [] state = "input" -> {"a", TAB, DEL, UP, CR, ESC}
    [] state = "streaming" -> {}
    [] state = "approval" -> {"c"}

PasteTexts == {<<"b">>, <<NL>>}

File(name) == [name |-> name, dir |-> FALSE]
Dir(name) == [name |-> name, dir |-> TRUE]

\* what readdirSync answers for the directory of the partial
Listings ==
  { <<>>,
    <<Dir(<<"b">>), File(<<"a", "b">>)>>,
    <<File(<<"a", "c">>), File(<<"a", "b">>)>> }

PromptLines == {<<Piece("obj", OneCommand, FALSE), PNl, DoneLine, PNl>>}

NextPrompt ==
  \/ Len(reqs) < MaxGwRequests /\ ToggleAIPanel
  \/ ToggleResume
  \/ \E d \in PromptKeysIn(tab[1].inlineState) :
       KeyStroke(1, d, <<>>) /\ Len(reqs') <= MaxGwRequests
  \/ \E text \in PasteTexts : Paste(text)
  \/ \E entries \in Listings : FsResolve(entries)
  \/ FsReject
  \/ \E r \in 1..MaxGwRequests, c \in PromptLines :
       r <= Len(reqs) /\ reqs[r].nData < MaxData /\ ResData(r, c)
  \/ \E r \in 1..MaxGwRequests : ResEnd(r)

SpecPrompt == InitHist /\ [][NextPrompt]_vars

----------------------------------------------------------------------------
(* Properties of the inline prompt, checked under SpecPrompt *)

\* C21: a paste into the active tab t.  In input the text is appended to
\* inlineInputBuffer, nothing else of the tab changes and nothing is written
\* to the shell; in idle the text is written to the shell of t exactly as
\* pasted, in one write, and the tab is unchanged; in streaming and in
\* approval no field of the tab changes and nothing is written.  In every
\* case the ledger, the requests and the pending callbacks are unchanged.
C21_Step ==
  ev'.type = "paste" /\ activeTabId \in tabInstances =>
    LET t == activeTabId
        text == ev'.data
    IN /\ ev'.tab = t
       /\ tab[t].inlineState = "input" =>
            /\ tab' = [tab EXCEPT ![t].inlineInputBuffer = @ \o text]
            /\ out'.writes = <<>>
       /\ tab[t].inlineState = "idle" =>
            /\ tab' = tab
            /\ out'.writes = <<[tab |-> t, site |-> "paste", text |-> text]>>
       /\ tab[t].inlineState \in {"streaming", "approval"} =>
            /\ tab' = tab
            /\ out'.writes = <<>>
       /\ out'.errs = <<>>
       /\ UNCHANGED <<ledger, reqs, timers, fsPending>>

C21_PasteByState == [][C21_Step]_vars

\* a paste while the tab waits for the user's decision on a command has
\* just been dropped
C21_Witness ==
  /\ ev.type = "paste"
  /\ ev.data = <<"b">>
  /\ tab[ev.tab].inlineState = "approval"
  /\ tab[ev.tab].inlineInputBuffer = <<"a">>
  /\ out.writes = <<>>

\* the fsComplete promises of tab t that have not settled
Outstanding(pending, t) == {i \in 1..Len(pending) : pending[i].tab = t}

\* C22: every tab has at most one fsComplete promise outstanding, and
\* tabCompletionBusy is set exactly while it has one.  A Tab key pressed
\* while the flag is set leaves the outstanding promises as they are, and
\* after the promise of a tab has resolved or rejected the flag of that tab
\* is clear.
C22_Step ==
  /\ \A t \in TabIds :
       /\ Cardinality(Outstanding(fsPending', t)) <= 1
       /\ tab'[t].tabCompletionBusy <=> Outstanding(fsPending', t) # {}
  /\ ev'.type = "key" /\ ev'.data = TAB /\ tab[ev'.tab].tabCompletionBusy =>
       fsPending' = fsPending
  /\ ev'.type \in {"fsResolve", "fsReject"} =>
       /\ ~tab'[ev'.tab].tabCompletionBusy
       /\ fsPending' = Tail(fsPending)

C22_OneCompletionOutstanding == [][C22_Step]_vars

\* the Tab key has been pressed on the prompt ab while the request for the
\* partial a was outstanding: no request for ab has been issued
C22_Witness ==
  /\ ev.type = "key"
  /\ ev.data = TAB
  /\ tab[ev.tab].inlineInputBuffer = <<"a", "b">>
  /\ tab[ev.tab].tabCompletionBusy
  /\ Len(fsPending) = 1
  /\ fsPending[1].partial = <<"a">>

\* the longest text every match starts with
IsCommonPrefix(c, matches) == \A i \in 1..Len(matches) : StartsWith(matches[i], c)

LongestCommonPrefix(matches) ==
  CHOOSE c \in {SubSeq(matches[1], 1, n) : n \in 0..Len(matches[1])} :
    /\ IsCommonPrefix(c, matches)
    /\ \A n \in 0..Len(matches[1]) :
         IsCommonPrefix(SubSeq(matches[1], 1, n), matches) => n <= Len(c)

\* the partial path with its last segment replaced by text
Extended(partial, text) ==
  SubSeq(partial, 1, Len(partial) - Len(LastSegment(partial))) \o text

\* C23: when the promise for the partial path p resolves with a non-empty
\* list of matches while the tab is in input, text is only appended to
\* inlineInputBuffer, and the trailing token of the buffer is afterwards p
\* with its last segment extended to the longest common prefix of the
\* matches, whatever was typed between the request and the response.
C23_Step ==
  ev'.type = "fsResolve" /\ ev'.data.matches # <<>>
    /\ tab[ev'.tab].inlineState = "input" =>
      LET t == ev'.tab
      IN /\ StartsWith(tab'[t].inlineInputBuffer, tab[t].inlineInputBuffer)
         /\ LastToken(tab'[t].inlineInputBuffer) =
              Extended(ev'.data.partial, LongestCommonPrefix(ev'.data.matches))

C23_CompletionExtendsPartial == [][C23_Step]_vars

\* the response to the request for the partial a, matched by ab alone, has
\* been applied to a prompt the user had erased in between: the prompt is b
C23_Witness ==
  /\ ev.type = "fsResolve"
  /\ ev.data.partial = <<"a">>
  /\ ev.data.matches = <<<<"a", "b">>>>
  /\ tab[ev.tab].inlineState = "input"
  /\ tab[ev.tab].inlineInputBuffer = <<"b">>

\* C28: Enter in input on a prompt that is empty or all whitespace takes
\* the tab to idle, issues no request and leaves inlineHistory and every
\* ledger as they were.
C28_Step ==
  ev'.type = "key" /\ ev'.data = CR /\ tab[ev'.tab].inlineState = "input"
    /\ (\A i \in 1..Len(tab[ev'.tab].inlineInputBuffer) :
          tab[ev'.tab].inlineInputBuffer[i] \in Whitespace) =>
      /\ tab'[ev'.tab].inlineState = "idle"
      /\ reqs' = reqs
      /\ ledger' = ledger
      /\ tab'[ev'.tab].inlineHistory = tab[ev'.tab].inlineHistory

C28_BlankSubmitExits == [][C28_Step]_vars

\* Enter has just taken a tab with a history back to idle without a query
C28_Witness ==
  /\ ev.type = "key"
  /\ ev.data = CR
  /\ tab[ev.tab].inlineState = "idle"
  /\ tab[ev.tab].inlineHistory = <<<<"a">>, <<"b">>>>
  /\ reqs = <<>>
  /\ out.writes = <<[tab |-> ev.tab, site |-> "exit", text |-> <<CR>>]>>

----------------------------------------------------------------------------
(* SpecParse: the answers parseAiResponse is given.  One inline query is   *)
(* issued; the model answers with one of the texts of RawInputs in one     *)
(* chunk, or with nothing, and the stream ends.  A free-text answer is a   *)
(* sequence of up to MaxFragments pieces: a line of prose, a line with     *)
(* the $ marker, a fenced block, a fenced block with a language tag and    *)
(* two lines, a fenced block holding only whitespace.  A JSON answer is an *)
(* object with a text field and a command list under every accepted name,  *)
(* an object lacking fields or holding fields of other types, or a value   *)
(* that is no object.                                                      *)

Fragment(kind, text, content) == [kind |-> kind, text |-> text, content |-> content]

Fragments ==
  { Fragment("prose", <<"a", NL>>, <<>>),
    Fragment("dollar", <<" ", "$", " ", "b", " ", NL>>, <<"b", " ">>),
    Fragment("block", Fence \o <<NL, " ", "x", NL>> \o Fence \o <<NL>>,
             <<" ", "x", NL>>),
    Fragment("block", Fence \o <<"s", "h", NL, "y", NL, "z", NL>> \o Fence \o <<NL>>,
             <<"y", NL, "z", NL>>),
    Fragment("block", Fence \o <<NL, " ", NL>> \o Fence \o <<NL>>, <<" ", NL>>) }

FreeTexts == UNION {[1..n -> Fragments] : n \in 0..MaxFragments}

RECURSIVE Render(_)
Render(f) == IF f = <<>> THEN <<>> ELSE Head(f).text \o Render(Tail(f))

\* the text of a JSON string literal, a newline written as the escape \n
RECURSIVE Escaped(_)
Escaped(s) ==
  IF s = <<>> THEN <<>>
  ELSE (IF Head(s) = NL THEN <<"\\", "n">> ELSE <<Head(s)>>) \o Escaped(Tail(s))

Str(s) == <<"\"">> \o Escaped(s) \o <<"\"">>

RECURSIVE Joined(_)
Joined(texts) ==
  IF texts = <<>> THEN <<>>
  ELSE IF Len(texts) = 1 THEN texts[1]
  ELSE texts[1] \o <<",">> \o Joined(Tail(texts))

List(texts) == <<"[">> \o Joined(texts) \o <<"]">>
Obj(members) == <<"{">> \o Joined(members) \o <<"}">>
Member(key, valueText) == Str(key) \o <<":">> \o valueText

\* the objects that follow the schema: a string under a name of the text
\* field, a list of strings under a name of the list field
Structured ==
  [ textKey : {K_text, K_explanation, K_response},
    explanation : {<<>>, <<"t">>},
    listKey : {K_commands, K_command},
    commands : { <<>>, <<<<"x">>>>, <<<<"x">>, <<" ">>, <<" ", "y">>>>,
                 <<<<"x", NL, "y">>, <<"z">>>> } ]

RenderStructured(o) ==
  Obj(<<Member(o.textKey, Str(o.explanation)),
        Member(o.listKey, List([i \in 1..Len(o.commands) |-> Str(o.commands[i])]))>>)

\* objects off the schema, JSON values that are no object, text that is
\* no JSON
OtherObjects ==
  { Obj(<<>>),
    Obj(<<Member(K_text, <<"1">>)>>),
    Obj(<<Member(K_text, Str(<<"t">>))>>),
    Obj(<<Member(K_commands, Str(<<"x">>))>>),
    Obj(<<Member(K_commands, List(<<Str(<<"x">>)>>))>>),
    Obj(<<Member(K_commands, List(<<<<"1">>, Str(<<"x">>), <<"n", "u", "l", "l">>,
                                   List(<<Str(<<"y">>)>>)>>))>>) }

NonObjects ==
  { <<"n", "u", "l", "l">>, <<"1">>, Str(<<"s">>), List(<<>>), List(<<Str(<<"x">>)>>),
    <<"t", "r", "u", "e">> }

Malformed == { <<"{">>, <<"{", "a", "}">> }

RawInputs ==
  ({Render(f) : f \in FreeTexts} \cup {RenderStructured(o) : o \in Structured}
     \cup OtherObjects \cup NonObjects \cup Malformed) \ {<<>>}

ParseKeysIn(state) ==
  CASE state = "idle" -> {}
    [] state = "input" -> {"a", CR}
    [] state = "streaming" -> {}
    [] state = "approval" -> {"r", "s"}

NextParse ==
  \/ Len(reqs) < MaxGwRequests /\ ToggleAIPanel
  \/ ToggleResume
  \/ \E d \in ParseKeysIn(tab[1].inlineState) : KeyStroke(1, d, <<>>)
  \/ \E i \in 1..MaxTimers : FireTimer(i)
  \/ \E r \in 1..MaxGwRequests, raw \in RawInputs :
       r <= Len(reqs) /\ reqs[r].nData < MaxData
         /\ ResData(r, <<Piece("obj", raw, FALSE), PNl>>)
  \/ \E r \in 1..MaxGwRequests : ResEnd(r)

SpecParse == Init /\ [][NextParse]_vars

----------------------------------------------------------------------------
(* Properties of parseAiResponse, checked under SpecParse on the response  *)
(* a tab has accumulated: the text parseAiResponse is applied to when the  *)
(* stream ends, and still held by the tab while its commands are reviewed  *)

IsSequence(s) == DOMAIN s = 1..Len(s)

\* the last message of the ledger of tab t, or none
LastMessage(t) ==
  IF ledger[t] = <<>> THEN [role |-> "none", content |-> <<>>]
  ELSE ledger[t][Len(ledger[t])]

\* C24: for the response of every tab, be it empty, a JSON value that is
\* no object, an object without the expected fields or text that is no
\* JSON, parseAiResponse returns (it does not throw) a value with exactly
\* the fields text and commands, text a string and commands a list of
\* strings.
C24_ParseTotal ==
  \A t \in tabInstances :
    LET r == parseAiResponse(tab[t].inlineResponseBuffer)
    IN /\ DOMAIN r = {"text", "commands"}
       /\ IsSequence(r.text)
       /\ IsSequence(r.commands)
       /\ \A i \in 1..Len(r.commands) : IsSequence(r.commands[i])

\* the answer null has been parsed to no command: the tab is idle again
C24_Witness ==
  /\ ev.type = "end"
  /\ LastMessage(ev.tab) = [role |-> "assistant", content |-> <<"n", "u", "l", "l">>]
  /\ tab[ev.tab].inlineState = "idle"
  /\ parseAiResponse(<<"n", "u", "l", "l">>) =
       [text |-> <<"n", "u", "l", "l">>, commands |-> <<>>]

RECURSIVE NonBlank(_)
NonBlank(cmds) ==
  IF cmds = <<>> THEN <<>>
  ELSE (IF \A i \in 1..Len(Head(cmds)) : Head(cmds)[i] \in Whitespace
        THEN <<>> ELSE <<Head(cmds)>>) \o NonBlank(Tail(cmds))

\* C25 as stated: when the response of a tab is an object of the schema,
\* parseAiResponse returns its explanation and all its command strings, in
\* order and unmodified.
C25_StructuredVerbatim ==
  \A t \in tabInstances : \A o \in Structured :
    tab[t].inlineResponseBuffer = RenderStructured(o) =>
      parseAiResponse(tab[t].inlineResponseBuffer) =
        [text |-> o.explanation, commands |-> o.commands]

\* C25 amended: when the response of a tab is an object of the schema,
\* parseAiResponse returns its explanation and those of its command strings
\* that are not blank, in order and unmodified.
C25_StructuredNonBlank ==
  \A t \in tabInstances : \A o \in Structured :
    tab[t].inlineResponseBuffer = RenderStructured(o) =>
      parseAiResponse(tab[t].inlineResponseBuffer) =
        [text |-> o.explanation, commands |-> NonBlank(o.commands)]

\* the object with the commands x, blank, space-y has been parsed: the tab
\* reviews x and space-y
C25_Witness ==
  \E o \in Structured :
    /\ o.commands = <<<<"x">>, <<" ">>, <<" ", "y">>>>
    /\ o.explanation = <<"t">>
    /\ ev.type = "end"
    /\ tab[ev.tab].inlineState = "approval"
    /\ tab[ev.tab].inlineResponseBuffer = RenderStructured(o)
    /\ tab[ev.tab].inlineCommands = <<<<"x">>, <<" ", "y">>>>

\* the trimmed contents of the fenced blocks of f, in order
RECURSIVE BlockContents(_)
BlockContents(f) ==
  IF f = <<>> THEN <<>>
  ELSE (IF Head(f).kind = "block" THEN <<Trim(Head(f).content)>> ELSE <<>>)
         \o BlockContents(Tail(f))

\* C26 as stated: when the response of a tab is free text with one or more
\* fenced blocks, parseAiResponse returns the trimmed contents of all the
\* blocks, in order, and the whole response as text.
C26_FencedBlocks ==
  \A t \in tabInstances : \A f \in FreeTexts :
    tab[t].inlineResponseBuffer = Render(f) /\ BlockContents(f) # <<>> =>
      parseAiResponse(tab[t].inlineResponseBuffer) =
        [text |-> Render(f), commands |-> BlockContents(f)]

\* C26 amended: when the response of a tab is free text with one or more
\* fenced blocks that are not blank, parseAiResponse returns the trimmed
\* contents of the blocks that are not blank, in order, and the whole
\* response as text.
C26_FencedNonBlank ==
  \A t \in tabInstances : \A f \in FreeTexts :
    tab[t].inlineResponseBuffer = Render(f)
      /\ NonBlank(BlockContents(f)) # <<>> =>
        parseAiResponse(tab[t].inlineResponseBuffer) =
          [text |-> Render(f), commands |-> NonBlank(BlockContents(f))]

\* a response with a $ line, a block and a tagged block of two lines has
\* been parsed: the tab reviews the contents of the two blocks
C26_Witness ==
  \E f \in FreeTexts :
    /\ Len(f) = MaxFragments
    /\ f[1].kind = "dollar" /\ f[2].kind = "block" /\ f[3].kind = "block"
    /\ ev.type = "end"
    /\ tab[ev.tab].inlineState = "approval"
    /\ tab[ev.tab].inlineResponseBuffer = Render(f)
    /\ tab[ev.tab].inlineCommands = <<<<"x">>, <<"y", NL, "z">>>>

\* the free texts without a fenced block and without a $ line, and the
\* responses that are no structured object at all
Unstructured ==
  {Render(f) : f \in {g \in FreeTexts : \A i \in 1..Len(g) : g[i].kind = "prose"}}
    \cup NonObjects \cup Malformed

\* C27: when the response of a tab is not a structured object and has
\* neither a fenced block nor a $ line, parseAiResponse returns no command
\* and the response itself as text.
C27_PlainText ==
  \A t \in tabInstances :
    tab[t].inlineResponseBuffer \in Unstructured =>
      parseAiResponse(tab[t].inlineResponseBuffer) =
        [text |-> tab[t].inlineResponseBuffer, commands |-> <<>>]

\* the answer 1 has been parsed to the empty text: the tab is idle again
C27_Witness ==
  /\ ev.type = "end"
  /\ LastMessage(ev.tab) = [role |-> "assistant", content |-> <<"1">>]
  /\ tab[ev.tab].inlineState = "idle"
  /\ parseAiResponse(<<"1">>) = [text |-> <<>>, commands |-> <<>>]

----------------------------------------------------------------------------
(* Properties of the tab lifecycle, checked under SpecTabs *)

\* C29: a tab whose shell has exited is no longer in tabInstances: the
\* handler of the exit event removes it, so that no later hotkey,
\* keystroke, paste or query finds it.
C29_ExitDestroysSession ==
  \A t \in TabIds : shell[t] = "exited" => t \notin tabInstances

\* Enter has been handled for a tab whose shell had exited, and a query
\* has been issued for it
C29_Witness ==
  /\ ev.type = "key"
  /\ ev.data = CR
  /\ shell[ev.tab] = "exited"
  /\ ev.tab \in tabInstances
  /\ tab[ev.tab].inlineState = "streaming"
  /\ reqs # <<>>
  /\ reqs[Len(reqs)].tab = ev.tab
  /\ reqs[Len(reqs)].phase = "active"

\* C30: tabInstances is never empty, and closeTab on the only tab changes
\* neither tabInstances nor the active tab nor a shell.
C30_Step ==
  /\ tabInstances' # {}
  /\ ev'.type = "closeTab" /\ tabInstances = {ev'.tab} =>
       UNCHANGED <<tabInstances, activeTabId, tabs, shell, tab, ledger, reqs>>

C30_RegistryNeverEmpty == [][C30_Step]_vars

\* closeTab has just been called on tab 2, the only tab left after tab 1
\* was closed
C30_Witness ==
  /\ ev.type = "closeTab"
  /\ ev.tab = 2
  /\ tabInstances = {2}
  /\ activeTabId = 2
  /\ shell[1] \in {"killed", "exited"}

----------------------------------------------------------------------------
(* Properties of the delayed callbacks of the approval workflow, checked   *)
(* under SpecAp *)

\* the callbacks of kind pending for tab t
PendingOf(t, kind) ==
  {k \in 1..Len(timers) : timers[k].tab = t /\ timers[k].kind = kind}

\* C31: the callback of a run key on the review prompt writes the command
\* that is under review when it runs, once: it finds the tab in approval,
\* not busy, with its command at the cursor, it is the only run callback
\* pending for the tab, and it moves the cursor by one, to a command that
\* is then shown for review or past the last command.
C31_Step ==
  ev'.type = "timer" /\ ev'.data = "reviewRun" =>
    LET t == ev'.tab
        T == tab[t]
        i == T.inlineCommandIndex
    IN /\ Cardinality(PendingOf(t, "reviewRun")) = 1
       /\ ReviewPhase(T)
       /\ ~T.inlineReviewBusy
       /\ \A k \in PendingOf(t, "reviewRun") :
            /\ T.inlineCommands[i + 1] = timers[k].cmd
            /\ out'.writes = <<[tab |-> t, site |-> "reviewRun",
                                text |-> Converted(timers[k].cmd) \o <<CR>>]>>
       /\ \/ /\ i + 1 < Len(T.inlineCommands)
             /\ tab'[t].inlineState = "approval"
             /\ tab'[t].inlineCommands = T.inlineCommands
             /\ tab'[t].inlineCommandIndex = i + 1
          \/ /\ i + 1 = Len(T.inlineCommands)
             /\ tab'[t].inlineState = "idle"

C31_RunWritesOnce == [][C31_Step]_vars

\* the run key has been pressed a second time on the review prompt of
\* command 0 before the callback of the first press has run: two callbacks
\* holding command 0 are pending
C31_Witness ==
  /\ ev.type = "key"
  /\ ToLowerCase(ev.data) = "r"
  /\ ReviewPhase(tab[ev.tab])
  /\ tab[ev.tab].inlineCommandIndex = 0
  /\ Cardinality(PendingOf(ev.tab, "reviewRun")) = 2
  /\ \A k \in PendingOf(ev.tab, "reviewRun") :
       timers[k].cmd = tab[ev.tab].inlineCommands[1]

\* showCommandReview: the prompt it writes on the terminal display, or the
\* TypeError of formatCommandPreview(undefined) when the cursor is not
\* inside the command list; no field of the tab is assigned
showCommandReview(T) ==
  IF T.inlineCommandIndex < Len(T.inlineCommands)
    THEN [threw |-> FALSE, index |-> T.inlineCommandIndex,
          total |-> Len(T.inlineCommands),
          cmd |-> T.inlineCommands[T.inlineCommandIndex + 1]]
    ELSE [threw |-> TRUE, index |-> T.inlineCommandIndex,
          total |-> Len(T.inlineCommands), cmd |-> <<>>]

\* a settle callback pending for tab t was scheduled before the tab last
\* returned to idle: the tab is not in approval, or more settle callbacks
\* are pending than commands were run since the tab entered approval. The
\* oldest pending settle callback runs first (MayFire).
StaleSettle(t) ==
  /\ PendingOf(t, "reviewNext") # {}
  /\ \/ tab[t].inlineState # "approval"
     \/ Cardinality(PendingOf(t, "reviewNext")) > tab[t].inlineCommandIndex

\* C32: a settle callback that runs after its tab has returned to idle
\* changes no field of the tab, writes nothing to the shell and shows no
\* review prompt for a cursor outside the command list.
C32_Step ==
  ev'.type = "timer" /\ ev'.data = "reviewNext" /\ StaleSettle(ev'.tab) =>
    /\ tab'[ev'.tab] = tab[ev'.tab]
    /\ out'.writes = <<>>
    /\ ~showCommandReview(tab'[ev'.tab]).threw =>
         showCommandReview(tab'[ev'.tab]).index \in
           0..(Len(tab'[ev'.tab].inlineCommands) - 1)

C32_StaleSettleHarmless == [][C32_Step]_vars

\* the settle callback of a run that preceded the tab's return to idle has
\* run while the tab, back in approval, was waiting out the settle delay of
\* a later run: the busy flag is cleared with the later callback pending
C32_Witness ==
  /\ ev.type = "timer"
  /\ ev.data = "reviewNext"
  /\ tab[ev.tab].inlineState = "approval"
  /\ tab[ev.tab].inlineCommandIndex = 1
  /\ ~tab[ev.tab].inlineReviewBusy
  /\ PendingOf(ev.tab, "reviewNext") # {}
  /\ Len(reqs) = 2

----------------------------------------------------------------------------
(* The session under fair delivery of the transport's events: one tab, the *)
(* inline prompt and the panel, and a transport that delivers the end or   *)
(* the failure of every request it has started                             *)

LiveKeysIn(state) ==
  CASE state = "idle" -> {}
    [] state = "input" -> {"a", CR}
    [] state = "streaming" -> {"a"}
    [] state = "approval" -> {"c"}

NextLive ==
  \/ /\ Len(reqs) < MaxRequests
     /\ ToggleAIPanel
  \/ ToggleResume
  \/ \E d \in LiveKeysIn(tab[1].inlineState) : KeyStroke(1, d, <<>>)
  \/ HintBarClick
  \/ PanelClose
  \/ \E v \in PanelValues : Len(reqs) < MaxRequests /\ PanelSend(v, <<>>)
  \/ \E r \in 1..MaxRequests, ch \in DataLines :
       r <= Len(reqs) /\ reqs[r].nData < MaxData /\ ResData(r, ch)
  \/ \E r \in 1..MaxRequests : ResEnd(r)
  \/ \E r \in 1..MaxRequests, e \in Errors : ReqError(r, e)

\* res.on('end') or req.on('error') of request r is delivered
Delivered(r) == ResEnd(r) \/ \E e \in Errors : ReqError(r, e)

SpecLive ==
  Init /\ [][NextLive]_vars /\ \A r \in 1..MaxRequests : WF_vars(Delivered(r))

\* C33: a tab in streaming reaches idle or approval, whatever the user
\* does, once the transport has delivered the end or the failure of its
\* requests.
C33_StreamingEnds ==
  (tab[1].inlineState = "streaming") ~> (tab[1].inlineState \in {"idle", "approval"})

\* a panel query was sent while the inline query was streaming and both
\* requests have ended: the tab is in streaming with no request active and
\* no event of the transport left to come
C33_Witness ==
  /\ tab[1].inlineState = "streaming"
  /\ Len(reqs) = 2
  /\ \A r \in 1..Len(reqs) : reqs[r].phase # "active"
  /\ ev.type \in {"data", "end", "error"}

----------------------------------------------------------------------------
(* The tab in approval, checked under SpecParse: the commands of every     *)
(* response of RawInputs are reviewed with the run and skip keys           *)

\* C34: a tab in approval has at least one command and no command that is
\* empty or all whitespace; its cursor is between 0 and the number of
\* commands, and is the number of commands only on the confirm prompt of a
\* single command.
C34_ApprovalShape ==
  \A t \in tabInstances :
    tab[t].inlineState = "approval" =>
      LET cmds == tab[t].inlineCommands
          i == tab[t].inlineCommandIndex
      IN /\ Len(cmds) > 0
         /\ \A k \in 1..Len(cmds) : Trim(cmds[k]) # <<>>
         /\ i \in 0..Len(cmds)
         /\ i = Len(cmds) =>
              Len(cmds) = 1 /\ tab[t].inlineAcceptedCommands = cmds

\* of a response with the commands x, blank and space-y the first was
\* skipped: the tab is on the review prompt of space-y, the last of two
C34_Witness ==
  /\ ev.type = "key"
  /\ ev.data = "s"
  /\ tab[ev.tab].inlineState = "approval"
  /\ tab[ev.tab].inlineCommands = <<<<"x">>, <<" ", "y">>>>
  /\ tab[ev.tab].inlineCommandIndex = 1
  /\ \E o \in Structured :
       /\ Len(o.commands) = 3
       /\ tab[ev.tab].inlineResponseBuffer = RenderStructured(o)

----------------------------------------------------------------------------
(* The history cursor, checked under SpecHist *)

\* the up arrow at the oldest entry, the down arrow outside the
\* navigation, or either arrow with no history
IdleArrow(T, data) ==
  \/ data = UP /\ T.inlineHistoryIndex = 0
  \/ data = DOWN /\ T.inlineHistoryIndex = -1
  \/ data \in {UP, DOWN} /\ T.inlineHistory = <<>>

\* the cursor of every tab is -1 or an index of its history
C35_CursorInRange ==
  \A t \in tabInstances :
    tab[t].inlineHistoryIndex \in -1..(Len(tab[t].inlineHistory) - 1)

\* an arrow key that has nowhere to go changes nothing
C35_Step ==
  (ev'.type = "key" /\ tab[ev'.tab].inlineState = "input"
     /\ IdleArrow(tab[ev'.tab], ev'.data))
  => /\ tab'[ev'.tab] = tab[ev'.tab]
     /\ out'.writes = <<>>

\* C35: in every state the history cursor of a tab is -1 or the index of
\* an entry of its history, and the up arrow at the oldest entry, the down
\* arrow outside the navigation and either arrow with an empty history
\* change no field of the tab.
C35_HistoryCursor == []C35_CursorInRange /\ [][C35_Step]_vars

\* the up arrow was pressed with no history and the prompt a typed: the
\* prompt is still a and the cursor -1
C35_Witness ==
  /\ ev.type = "key"
  /\ ev.data = UP
  /\ tab[ev.tab].inlineState = "input"
  /\ tab[ev.tab].inlineHistory = <<>>
  /\ tab[ev.tab].inlineHistoryIndex = -1
  /\ tab[ev.tab].inlineInputBuffer = <<"a">>
  /\ out.writes = <<>>

----------------------------------------------------------------------------
(* The configuration file changing under the program: resolveConfig reads  *)
(* it anew for every query, so the model the renderer saw when the prompt  *)
(* was opened may be gone when the query is made                           *)

\* the model entry of the configuration file is removed or set by an edit
\* of the file
ConfigEdit(m) ==
  /\ m # model
  /\ model' = m
  /\ ev' = Event("config", 0, "", 0)
  /\ out' = [writes |-> <<>>, errs |-> <<>>]
  /\ UNCHANGED <<tabInstances, activeTabId, tab, aiPanelOpen, actionsShown,
                 timers, toggleWait, fsPending, tabs, shell, ledger, reqs>>

\* the longest prompt history explored
MaxHistory == 3

NextCfg ==
  \/ \E m \in BOOLEAN : ConfigEdit(m)
  \/ Len(reqs) < MaxRequests /\ ToggleAIPanel
  \/ ToggleResume
  \/ \E d \in HistKeysIn(tab[1].inlineState) :
       KeyStroke(1, d, <<>>) /\ Len(tab'[1].inlineHistory) <= MaxHistory
  \/ \E r \in 1..MaxRequests : ResEnd(r)
  \/ \E r \in 1..MaxRequests : ReqError(r, ECONNRESET)

SpecCfg == InitHist /\ [][NextCfg]_vars

\* C36: a query made when no model is configured shows one failure, the
\* one of the missing model, on its tab, leaves every ledger as it was and
\* starts no request; the tab is idle after it.
C36_Step ==
  (/\ ev'.type = "key" /\ ev'.data = CR
   /\ tab[ev'.tab].inlineState = "input"
   /\ Trim(tab[ev'.tab].inlineInputBuffer) # <<>>
   /\ ~model)
  => /\ out'.errs = <<[tab |-> ev'.tab, where |-> "term", msg |-> NoModelMsg]>>
     /\ ledger' = ledger
     /\ reqs' = reqs
     /\ tab'[ev'.tab].inlineState = "idle"

C36_NoModelFailsOnce == [][C36_Step]_vars

\* after one answered query the model was removed from the configuration
\* and a second prompt was submitted: the failure is shown, the ledger
\* holds the first prompt only and there is the one request
C36_Witness ==
  /\ ev.type = "key" /\ ev.data = CR
  /\ ~model
  /\ out.errs = <<[tab |-> ev.tab, where |-> "term", msg |-> NoModelMsg]>>
  /\ tab[ev.tab].inlineState = "idle"
  /\ Len(reqs) = 1
  /\ Len(ledger[ev.tab]) = 1

----------------------------------------------------------------------------
(* Keystrokes while a response is streaming, checked under Spec *)

\* C37: a keystroke on a tab in streaming that is not Escape changes no
\* field of the tab and writes nothing to a shell; Escape returns the tab
\* to idle.
C37_Step ==
  (ev'.type = "key" /\ tab[ev'.tab].inlineState = "streaming")
  => IF ev'.data = ESC
       THEN tab'[ev'.tab].inlineState = "idle"
       ELSE /\ tab'[ev'.tab] = tab[ev'.tab]
            /\ out'.writes = <<>>
            /\ out'.errs = <<>>

C37_StreamingKeys == [][C37_Step]_vars

\* a key other than Escape was pressed on a tab that is streaming, its
\* request still active: the tab is streaming as before and nothing was
\* written
C37_Witness ==
  /\ ev.type = "key" /\ ev.data = "a"
  /\ tab[ev.tab].inlineState = "streaming"
  /\ tab[ev.tab].aiQuerySource = "inline"
  /\ \E r \in 1..Len(reqs) : reqs[r].tab = ev.tab /\ reqs[r].phase = "active"
  /\ out.writes = <<>>

----------------------------------------------------------------------------
(* The response a completion is parsed from, checked under Spec *)

\* the chunks of a request, in the order sent, as one text
RECURSIVE ChunksText(_)
ChunksText(chunks) ==
  IF chunks = <<>> THEN <<>> ELSE Head(chunks) \o ChunksText(Tail(chunks))

\* C38: when an ai:done reaches a tab that is streaming an inline query and
\* takes it to approval, the response buffer the commands were parsed from
\* is the chunks, in the order sent, of the request of the tab's latest
\* submit, all of them and nothing else.
C38_Step ==
  (/\ ev'.type \in {"data", "end"}
   /\ ev'.req \in 1..Len(reqs)
   /\ reqs'[ev'.req].nDone > reqs[ev'.req].nDone
   /\ tab[ev'.tab].inlineState = "streaming"
   /\ tab[ev'.tab].aiQuerySource = "inline"
   /\ tab'[ev'.tab].inlineState = "approval")
  => LET L == LatestInline(reqs, ev'.tab)
     IN /\ L # 0
        /\ tab'[ev'.tab].inlineResponseBuffer =
             ChunksText(IF ev'.type = "end" THEN reqs[L].sent ELSE reqs'[L].sent)

C38_BufferIsLatestResponse == [][C38_Step]_vars

\* the response of a cancelled request has completed on a tab that was
\* streaming its next query: the tab is in approval on a response of which
\* the request of the latest submit, still active, has sent nothing
C38_Witness ==
  /\ ev.type = "data"
  /\ Len(reqs) = 2
  /\ ev.req = 1
  /\ reqs[1].cancelled
  /\ reqs[1].tab = reqs[2].tab
  /\ reqs[2].source = "inline" /\ reqs[2].phase = "active" /\ reqs[2].sent = <<>>
  /\ tab[ev.tab].inlineState = "approval"
  /\ tab[ev.tab].inlineResponseBuffer # <<>>

----------------------------------------------------------------------------
(* The Assistant message of a request, checked under SpecGw *)

\* the Assistant messages of a ledger
Assistants(h) == {i \in 1..Len(h) : h[i].role = "assistant"}

\* what an event of request r that is no failure does to the ledger: the
\* event that completes the request appends the chunks sent so far as one
\* Assistant message if there are any, and every other event appends nothing
C39_Completion(r, t) ==
  LET text == ChunksText(IF ev'.type = "end" THEN reqs[r].sent ELSE reqs'[r].sent)
  IN IF reqs'[r].nDone > reqs[r].nDone /\ text # <<>>
       THEN ledger'[t] = Append(ledger[t], [role |-> "assistant", content |-> text])
       ELSE ledger'[t] = ledger[t]

\* C39: a request appends an Assistant message at most once, when it
\* completes with text accumulated, and the message is its chunks in the
\* order sent; a request that completes without text appends none, and
\* when a request has failed the ledger holds no Assistant message that was
\* not there before the query.
C39_Step ==
  LET r == ev'.req
      t == ev'.tab
  IN (ev'.type \in {"data", "end", "error"} /\ r \in 1..Len(reqs))
     => /\ reqs'[r].nDone <= 1
        /\ ev'.type \in {"data", "end"} => C39_Completion(r, t)
        /\ ev'.type = "error" =>
             Cardinality(Assistants(ledger'[t]))
               <= Cardinality(Assistants(reqs[r].base))

C39_AssistantOncePerCompletion == [][C39_Step]_vars

\* a request that had completed with the text of one chunk has failed: the
\* ledger, empty before the query, holds the prompt and the Assistant
\* message of the failed request
C39_Witness ==
  /\ ev.type = "error"
  /\ Len(ledger[ev.tab]) = 2
  /\ ledger[ev.tab][1].role = "user"
  /\ ledger[ev.tab][2] = [role |-> "assistant", content |-> OneCommand]

----------------------------------------------------------------------------
(* The trigger (onToggleAIPanel), checked under Spec.  The handler runs in *)
(* two steps: "toggle" up to the await of configGet, "toggleResume" after  *)
(* it.                                                                     *)

\* the tab is at an empty prompt: input, with the transient buffers empty,
\* no command and the history cursor at -1
AtEmptyPrompt(T) ==
  /\ T.inlineState = "input"
  /\ T.inlineInputBuffer = <<>>
  /\ T.inlineResponseBuffer = <<>>
  /\ T.inlineCommands = <<>>
  /\ T.inlineHistoryIndex = -1

\* the trigger with the panel closed: on an idle tab it waits for the
\* configuration and, a model being configured, takes the tab to an empty
\* prompt with the history as it was; on a tab that is not idle it returns
\* the tab to idle; no step of it takes a tab that is not idle to input
C40_Trigger ==
  LET t == ev'.tab
  IN /\ (ev'.type = "toggle" /\ tab[t].inlineState # "idle")
          => tab'[t].inlineState = "idle"
     /\ (ev'.type = "toggle" /\ tab[t].inlineState = "idle")
          => toggleWait' = Append(toggleWait, t) /\ tab'[t] = tab[t]
     /\ (ev'.type = "toggleResume" /\ model /\ tab[t].inlineState = "idle")
          => /\ AtEmptyPrompt(tab'[t])
             /\ tab'[t].inlineHistory = tab[t].inlineHistory
     /\ (ev'.type = "toggleResume" /\ tab[t].inlineState # "idle")
          => tab'[t] = tab[t]

\* C40 as stated: the trigger acts on the tab as in C40_Trigger whatever
\* else is on display.
C40_Step ==
  ev'.type \in {"toggle", "toggleResume"} => C40_Trigger

C40_TriggerTogglesInline == [][C40_Step]_vars

\* C40 amended: with the panel closed the trigger acts on the tab as in
\* C40_Trigger; with the panel open it closes the panel and leaves the tab
\* as it is, whatever its state.
C40_StepPanel ==
  ev'.type \in {"toggle", "toggleResume"} =>
    IF ev'.type = "toggle" /\ aiPanelOpen
      THEN ~aiPanelOpen' /\ tab' = tab /\ toggleWait' = toggleWait
      ELSE C40_Trigger

C40_TriggerClosesPanelFirst == [][C40_StepPanel]_vars

\* the trigger was pressed with the panel open over a tab that is
\* streaming: the panel is closed and the tab is still streaming
C40_Witness ==
  /\ ev.type = "toggle"
  /\ ~aiPanelOpen
  /\ tab[ev.tab].inlineState = "streaming"
  /\ toggleWait = <<>>

====
